---- MODULE Spec2Model ----
(***************************************************************************)
(* Model of the flersucker transcription tool: the job orchestrator        *)
(* (TranscriptionProcessor.process and main.process_one), the batch        *)
(* drivers (PlaylistProcessor and the playlist loop of main) and the       *)
(* metadata merge.                                                         *)
(*                                                                         *)
(* Python strings are sequences of tokens (tuples of one-token strings),   *)
(* None is the sentinel tuple NoneVal, a dict is a function whose DOMAIN   *)
(* is its key set, a file system is a function from paths to contents.     *)
(***************************************************************************)
EXTENDS Integers, Sequences, FiniteSets, TLC

\* ------------------------------------------------------------------ bounds
MaxModels == 2      \* longest list of requested models
MaxRuns == 2        \* process calls in a row on one input
MaxEntries == 3     \* longest playlist
MaxKeys == 3        \* metadata fields drawn for the merge check
MaxFields == 3      \* most fields of a backend record in the enrichment check
MaxRecords == 3     \* most transcript files given to create_consensus
MaxTitleLen == 42   \* longest title, in characters, of the slug check
MaxCopies == 4      \* most copies of one record given to create_consensus

\* ------------------------------------------------------- values and dicts
NoneVal == <<"<None>">>
EmptyStr == <<>>
EmptyDict == [k \in {} |-> NoneVal]

\* Python truthiness of a metadata value: None and '' are falsy
Truthy(v) == v # NoneVal /\ v # EmptyStr

\* dict.get(key) with the default None
Get(d, k) == IF k \in DOMAIN d THEN d[k] ELSE NoneVal

Min(a, b) == IF a < b THEN a ELSE b

\* ------------------------------------------------------------ the inputs
ModelIds == {"whisper", "parakeet"}

YT1 == <<"https://", "youtu.be", "/", "v1">>
YT2 == <<"https://www.", "youtube.com", "/watch?v=", "v2">>
PlaylistUrl == <<"https://", "youtube.com", "/", "playlist?list=", "p1">>
LocalMp4 == <<"talk", ".mp4">>
LocalWav == <<"talk", ".wav">>

Today == <<"2026", "11", "03">>

\* what yt_dlp reports for a video locator
RemoteInfo(url) ==
    IF url = YT1
    THEN [id |-> <<"v1">>, title |-> <<"T", "/", "1">>, description |-> <<"d1">>,
          uploader |-> <<"up1">>, upload_date |-> <<"2024", "01", "31">>]
    ELSE IF url = YT2
    THEN [id |-> <<"v2">>, title |-> <<"T", "2", "?">>, description |-> NoneVal,
          uploader |-> <<"up2">>, upload_date |-> NoneVal]
    ELSE [id |-> <<"p1">>, title |-> <<"P", ":", "1">>, description |-> NoneVal,
          uploader |-> NoneVal, upload_date |-> NoneVal]

\* modification date of a local file
LocalMtime(path) == <<"2025", "06", "15">>

\* --------------------------------------------------------------- utils.py
IllegalChars == {"\\", "/", "*", "?", ":", "\"", "<", ">", "|"}
MaxSlugLen == 40

IsLegalChar(c) == c \notin IllegalChars

sanitize_filename(name) == SelectSeq(name, IsLegalChar)

IsYoutubeUrl(url) == \E i \in 1..Len(url) : url[i] \in {"youtube.com", "youtu.be"}

Extensions == {".mp4", ".wav"}

\* os.path.splitext(os.path.basename(p))[0] of an input reference
SplitExtStem(ref) ==
    IF Len(ref) > 0 /\ ref[Len(ref)] \in Extensions
    THEN SubSeq(ref, 1, Len(ref) - 1)
    ELSE ref

SplitExtExt(ref) ==
    IF Len(ref) > 0 /\ ref[Len(ref)] \in Extensions
    THEN <<ref[Len(ref)]>>
    ELSE <<>>

get_date_for_directory(input_path) ==
    IF IsYoutubeUrl(input_path)
    THEN IF Truthy(RemoteInfo(input_path).upload_date)
         THEN RemoteInfo(input_path).upload_date
         ELSE Today
    ELSE LocalMtime(input_path)

\* ------------------------------------------------- the world: files + log
\* a path is [dir, base, ext]; a directory is the path with empty base, ext
DirPath(dir) == [dir |-> dir, base |-> <<>>, ext |-> <<>>]
FilePath(dir, base, ext) == [dir |-> dir, base |-> base, ext |-> ext]

Exists(fs, p) == p \in DOMAIN fs

WriteFile(fs, p, content) == [q \in DOMAIN fs \cup {p} |-> IF q = p THEN content ELSE fs[q]]

\* one observable call of a collaborator; at = batch position (0: direct)
Ev(op, at, arg) == [op |-> op, at |-> at, arg |-> arg]

Emit(w, op, at, arg) == [w EXCEPT !.log = Append(@, Ev(op, at, arg))]

Raise(w) == [w EXCEPT !.raised = TRUE]

\* a slug cut to length before the illegal characters are removed
Slug_truncateFirst(title) ==
    sanitize_filename(SubSeq(title, 1, Min(MaxSlugLen, Len(title))))

\* sanitize_filename(title)[:40] (lines 62 and 64)
Slug(title) ==
    LET sanitized_title == sanitize_filename(title)
    IN SubSeq(sanitized_title, 1, Min(MaxSlugLen, Len(sanitized_title)))

\* the directory name create_output_directory derives (lines 57-64)
OutputDirName(input_path) ==
    LET title == IF IsYoutubeUrl(input_path)
                 THEN RemoteInfo(input_path).title
                 ELSE SplitExtStem(input_path)
        date_str == get_date_for_directory(input_path)
    IN date_str \o <<"-">> \o Slug(title)

\* create_output_directory: probes title and date (may raise), then mkdir
create_output_directory(w, input_path, at, acq) ==
    IF IsYoutubeUrl(input_path) /\ acq = "probe"
    THEN [w |-> Raise(Emit(w, "probe", at, <<>>)), dir |-> <<>>]
    ELSE LET dir_name == OutputDirName(input_path)
             w1 == Emit(w, "mkdir", at, dir_name)
         IN [w |-> [w1 EXCEPT !.fs = IF Exists(@, DirPath(dir_name)) THEN @
                                       ELSE WriteFile(@, DirPath(dir_name), <<>>)],
             dir |-> dir_name]

\* ------------------------------------------------------------ download.py
\* upload_date YYYYMMDD -> DD.MM.YYYY ('' when missing or malformed)
FormatUploadDate(upload_date_raw) ==
    IF Truthy(upload_date_raw) /\ Len(upload_date_raw) = 3
    THEN <<upload_date_raw[3], ".", upload_date_raw[2], ".", upload_date_raw[1]>>
    ELSE EmptyStr

MediaContent(kind) == << <<"media", kind>> >>

\* download_youtube: fetches the video into output_path, returns its path
\* and the acquired metadata
download_youtube(w, url, output_path, at, acq) ==
    LET w1 == Emit(w, "download", at, <<>>)
        info == RemoteInfo(url)
        clean_title == sanitize_filename(info.title)
        file_path == FilePath(output_path, clean_title, <<".mp4">>)
    IN IF acq = "fetch"
       THEN [w |-> Raise(w1), file_path |-> file_path, metadata |-> EmptyDict]
       ELSE [w |-> [w1 EXCEPT !.fs = WriteFile(@, file_path, MediaContent(<<"video">>))],
             file_path |-> file_path,
             metadata |-> [id |-> info.id,
                           title |-> info.title,
                           description |-> info.description,
                           uploader |-> info.uploader,
                           upload_date |-> FormatUploadDate(info.upload_date)]]

\* download_youtube_with_versions with no additional versions configured
download_youtube_with_versions(w, url, output_path, at, acq) ==
    download_youtube(w, url, output_path, at, acq)

\* extract_audio: ffmpeg writes <video base>.wav into output_path
extract_audio(w, video_path, output_path, at, acq) ==
    LET w1 == Emit(w, "extract_audio", at, <<>>)
        audio_path == FilePath(output_path, video_path.base, <<".wav">>)
    IN IF acq = "extract"
       THEN [w |-> Raise(w1), audio_path |-> audio_path]
       ELSE [w |-> [w1 EXCEPT !.fs = WriteFile(@, audio_path, MediaContent(<<"audio">>))],
             audio_path |-> audio_path]

\* shutil.copy(input_path, output_dir): raises when the input is unreadable
ShutilCopy(w, input_path, output_dir, at, acq) ==
    LET w1 == Emit(w, "copy", at, <<>>)
        target == FilePath(output_dir, SplitExtStem(input_path), SplitExtExt(input_path))
    IN IF acq = "fetch"
       THEN [w |-> Raise(w1), path |-> target]
       ELSE [w |-> [w1 EXCEPT !.fs = WriteFile(@, target, MediaContent(SplitExtExt(input_path)))],
             path |-> target]

\* -------------------------------------------- download.py: playlist probe
\* the entries yt_dlp may list: with a url, with an id only, with neither,
\* and an empty (falsy) entry
RawWithUrl == [id |-> <<"v1">>, url |-> YT1, title |-> <<"T", "/", "1">>,
               uploader |-> <<"up1">>, upload_date |-> <<"2024", "01", "31">>]
RawIdOnly == [id |-> <<"v2">>, description |-> <<"d2">>]
RawNoLocator == [title |-> <<"X">>]
RawEmpty == EmptyDict

RawEntries == {RawWithUrl, RawIdOnly, RawNoLocator, RawEmpty}

\* probe_youtube: the info dict of a reference
ProbeYoutube(url, raw_entries) ==
    IF url = PlaylistUrl
    THEN [_type |-> "playlist", entries |-> raw_entries]
    ELSE [_type |-> "video"]

is_playlist(info_dict) ==
    /\ "_type" \in DOMAIN info_dict
    /\ info_dict._type = "playlist"
    /\ "entries" \in DOMAIN info_dict

\* the dict iter_playlist_entries yields for one raw entry (lines 112-132)
MinimalEntry(entry) ==
    LET vid == Get(entry, "id")
    IN [id |-> vid,
        title |-> Get(entry, "title"),
        uploader |-> Get(entry, "uploader"),
        upload_date |-> FormatUploadDate(Get(entry, "upload_date")),
        description |-> Get(entry, "description"),
        url |-> IF Truthy(Get(entry, "url")) THEN entry.url
                ELSE IF Truthy(vid) THEN <<"https://www.", "youtube.com", "/watch?v=">> \o vid
                ELSE NoneVal]

IsTruthyEntry(entry) == DOMAIN entry # {}

\* list(iter_playlist_entries(info_dict))
iter_playlist_entries(info_dict) ==
    IF ~is_playlist(info_dict)
    THEN <<>>
    ELSE LET kept == SelectSeq(info_dict.entries, IsTruthyEntry)
         IN [i \in 1..Len(kept) |-> MinimalEntry(kept[i])]

\* value or '' of the batch drivers
OrEmpty(v) == IF Truthy(v) THEN v ELSE EmptyStr

\* the override the batch drivers build from an entry (playlist.py lines
\* 66-72, main.py lines 155-161)
EntryMetadata(entry) ==
    [id |-> Get(entry, "id"),
     title |-> Get(entry, "title"),
     description |-> OrEmpty(Get(entry, "description")),
     uploader |-> OrEmpty(Get(entry, "uploader")),
     upload_date |-> OrEmpty(Get(entry, "upload_date"))]

\* ---------------------------------------------------------- transcribe.py
RawTranscript == << <<"text", <<"hello", " ", "world">> >>,
                    <<"language", <<"en">> >>,
                    <<"segments", <<"[...]">> >> >>

\* what a model script writes when its load or transcription step raises
ErrorTranscript == << <<"text", <<"Error: ", "boom">> >>,
                      <<"language", <<"unknown">> >>,
                      <<"segments", <<"[...]">> >> >>

\* what a file holds that json.load cannot parse
CorruptJson == << <<"<corrupt>", <<>> >> >>

\* json.load of the file succeeds: the file is there and holds JSON
Loads(fs, file_path) == Exists(fs, file_path) /\ fs[file_path] # CorruptJson

TranscriptPath(output_dir, audio_path, model) ==
    FilePath(output_dir, audio_path.base, <<"-", model, ".json">>)

\* a transcribe that names its output file {model}-{audio base}.json
transcribe_modelFirst(w, model, audio_file, output_dir, at, outcome) ==
    LET w1 == Emit(w, "transcribe", at, <<model>>)
        output_file == FilePath(output_dir, <<model>>, <<"-">> \o audio_file.base \o <<".json">>)
    IN IF outcome = "raise"
       THEN [w |-> Raise(w1), file |-> output_file]
       ELSE [w |-> [w1 EXCEPT !.fs = WriteFile(@, output_file,
                                       IF outcome = "ok" THEN RawTranscript
                                       ELSE IF outcome = "corrupt" THEN CorruptJson
                                       ELSE ErrorTranscript)],
             file |-> output_file]

\* transcribe: runs the model script as a subprocess.
\*   "ok":         the script writes the transcript and exits 0
\*   "error_file": the script fails internally, writes an error record, exits 0
\*   "corrupt":    the script exits 0, the file it leaves is not readable JSON
\*   "raise":      script missing or non-zero exit; nothing is written
transcribe(w, model, audio_file, output_dir, at, outcome) ==
    LET w1 == Emit(w, "transcribe", at, <<model>>)
        output_file == TranscriptPath(output_dir, audio_file, model)
    IN IF outcome = "raise"
       THEN [w |-> Raise(w1), file |-> output_file]
       ELSE [w |-> [w1 EXCEPT !.fs = WriteFile(@, output_file,
                                       IF outcome = "ok" THEN RawTranscript
                                       ELSE IF outcome = "corrupt" THEN CorruptJson
                                       ELSE ErrorTranscript)],
             file |-> output_file]

\* ----------------------------------------------------------- processor.py
MetaKeys == <<"title", "description", "uploader", "upload_date", "id">>

\* a merge in which the acquired value always wins (metadata.update)
MergeMetadata_acquiredWins(metadata, dl_metadata) ==
    [k \in DOMAIN metadata \cup DOMAIN dl_metadata |->
        IF k \in DOMAIN dl_metadata THEN dl_metadata[k] ELSE metadata[k]]

\* a merge that joins the acquired value onto the override's value
MergeMetadata_append(metadata, dl_metadata) ==
    [k \in DOMAIN metadata \cup DOMAIN dl_metadata |->
        IF k \in DOMAIN dl_metadata
        THEN (IF Truthy(Get(metadata, k)) THEN metadata[k] ELSE EmptyStr)
             \o (IF Truthy(dl_metadata[k]) THEN dl_metadata[k] ELSE EmptyStr)
        ELSE metadata[k]]

\* _prepare_audio lines 76-79 (main.process_one lines 70-73): acquired
\* values fill the fields the override left absent or empty
MergeMetadata(metadata, dl_metadata) ==
    [k \in DOMAIN metadata \cup DOMAIN dl_metadata |->
        IF k \in DOMAIN dl_metadata /\ (k \notin DOMAIN metadata \/ ~Truthy(Get(metadata, k)))
        THEN dl_metadata[k]
        ELSE metadata[k]]

\* the audio step shared by both branches of _prepare_audio (lines 87-98)
ExtractOrCopy(w, input_path, output_dir, video, at, acq) ==
    IF video.present
    THEN LET audio_path == FilePath(output_dir, video.path.base, <<".wav">>)
         IN IF Exists(w.fs, audio_path)
            THEN [w |-> Emit(w, "print_audio_exists", at, <<>>), audio_path |-> audio_path]
            ELSE extract_audio(w, video.path, output_dir, at, acq)
    ELSE LET c == ShutilCopy(w, input_path, output_dir, at, acq)
         IN [w |-> c.w, audio_path |-> c.path]

NoVideo == [present |-> FALSE, path |-> DirPath(<<>>)]

\* what _prepare_audio returns (line 100)
AudioResult(a, metadata) ==
    [w |-> a.w, audio_path |-> a.audio_path, metadata |-> metadata]

\* _prepare_audio lines 76-94 with d the outcome of download_youtube: the
\* acquired metadata merged, then the audio of the downloaded video
AfterDownload(d, input_path, output_dir, metadata, at, acq) ==
    IF d.w.raised
    THEN [w |-> d.w, audio_path |-> d.file_path, metadata |-> metadata]
    ELSE AudioResult(ExtractOrCopy(d.w, input_path, output_dir,
                                   [present |-> TRUE, path |-> d.file_path], at, acq),
                     MergeMetadata(metadata, d.metadata))

\* _prepare_audio lines 86-94 with c the outcome of the copy of line 84
AfterCopy(c, input_path, output_dir, metadata, at, acq) ==
    IF c.w.raised
    THEN [w |-> c.w, audio_path |-> c.path, metadata |-> metadata]
    ELSE AudioResult(ExtractOrCopy(c.w, input_path, output_dir,
                                   [present |-> TRUE, path |-> c.path], at, acq),
                     metadata)

\* TranscriptionProcessor._prepare_audio
PrepareAudio(w, input_path, output_dir, metadata, at, acq) ==
    IF IsYoutubeUrl(input_path)
    THEN AfterDownload(download_youtube(w, input_path, output_dir, at, acq),
                       input_path, output_dir, metadata, at, acq)
    ELSE IF input_path[Len(input_path)] = ".mp4"
    THEN AfterCopy(ShutilCopy(w, input_path, output_dir, at, acq),
                   input_path, output_dir, metadata, at, acq)
    ELSE AudioResult(ExtractOrCopy(w, input_path, output_dir, NoVideo, at, acq), metadata)

EnrichedKeys == <<"title", "description", "uploader", "upload_date", "video_id", "model">>

IsNotMetaPair(pair) ==
    \A i \in 1..Len(EnrichedKeys) : pair[1] # EnrichedKeys[i]

\* an injection that writes the backend's fields first and the metadata
\* after them
InjectMetadata_metaLast(w, transcript_file, metadata, model, at) ==
    IF ~Loads(w.fs, transcript_file)
    THEN Emit(w, "print_inject_failed", at, <<model>>)
    ELSE LET data == w.fs[transcript_file]
             ordered == SelectSeq(data, IsNotMetaPair)
                        \o << <<"title", Get(metadata, "title")>>,
                              <<"description", Get(metadata, "description")>>,
                              <<"uploader", Get(metadata, "uploader")>>,
                              <<"upload_date", Get(metadata, "upload_date")>>,
                              <<"video_id", Get(metadata, "id")>>,
                              <<"model", <<model>> >> >>
         IN [w EXCEPT !.fs = WriteFile(@, transcript_file, ordered)]

\* an injection in which the backend's value of a colliding key overwrites
\* the metadata value (ordered.update(data))
InjectMetadata_keepBackend(w, transcript_file, metadata, model, at) ==
    IF ~Loads(w.fs, transcript_file)
    THEN Emit(w, "print_inject_failed", at, <<model>>)
    ELSE LET data == w.fs[transcript_file]
             own(key, value) ==
                 LET hit == SelectSeq(data, LAMBDA pair : pair[1] = key)
                 IN <<key, IF hit = <<>> THEN value ELSE hit[1][2]>>
             ordered == << own("title", Get(metadata, "title")),
                           own("description", Get(metadata, "description")),
                           own("uploader", Get(metadata, "uploader")),
                           own("upload_date", Get(metadata, "upload_date")),
                           own("video_id", Get(metadata, "id")),
                           own("model", <<model>>) >>
                        \o SelectSeq(data, IsNotMetaPair)
         IN [w EXCEPT !.fs = WriteFile(@, transcript_file, ordered)]

\* TranscriptionProcessor._inject_metadata: a failure to read or write the
\* file is caught and printed, the file stays as it is
InjectMetadata(w, transcript_file, metadata, model, at) ==
    IF ~Loads(w.fs, transcript_file)
    THEN Emit(w, "print_inject_failed", at, <<model>>)
    ELSE LET data == w.fs[transcript_file]
             ordered == << <<"title", Get(metadata, "title")>>,
                           <<"description", Get(metadata, "description")>>,
                           <<"uploader", Get(metadata, "uploader")>>,
                           <<"upload_date", Get(metadata, "upload_date")>>,
                           <<"video_id", Get(metadata, "id")>>,
                           <<"model", <<model>> >> >>
                        \o SelectSeq(data, IsNotMetaPair)
         IN [w EXCEPT !.fs = WriteFile(@, transcript_file, ordered)]

\* _transcribe_with_model without the existence check of lines 108-111
TranscribeWithModel_noskip(w, model, audio_path, output_dir, metadata, at, outcome) ==
    LET t == transcribe(w, model, audio_path, output_dir, at, outcome)
    IN IF t.w.raised
       THEN t
       ELSE [w |-> InjectMetadata(t.w, t.file, metadata, model, at), file |-> t.file]

\* TranscriptionProcessor._transcribe_with_model
TranscribeWithModel(w, model, audio_path, output_dir, metadata, at, outcome) ==
    LET transcript_file == TranscriptPath(output_dir, audio_path, model)
    IN IF Exists(w.fs, transcript_file)
       THEN [w |-> Emit(w, "print_transcription_exists", at, <<model>>),
             file |-> transcript_file]
       ELSE LET t == transcribe(w, model, audio_path, output_dir, at, outcome)
            IN IF t.w.raised
               THEN t
               ELSE [w |-> InjectMetadata(t.w, t.file, metadata, model, at),
                     file |-> t.file]

\* the body of the model loop without its except clause
TryModel_noexcept(w, model, audio_path, output_dir, metadata, at, outcome) ==
    LET r == TranscribeWithModel(w, model, audio_path, output_dir, metadata, at, outcome)
    IN IF r.w.raised
       THEN [w |-> r.w, files |-> <<>>]
       ELSE [w |-> r.w, files |-> <<r.file>>]

\* the body of the model loop of process (lines 56-63): an exception of one
\* model is caught and printed
TryModel(w, model, audio_path, output_dir, metadata, at, outcome) ==
    LET r == TranscribeWithModel(w, model, audio_path, output_dir, metadata, at, outcome)
    IN IF r.w.raised
       THEN [w |-> Emit([r.w EXCEPT !.raised = FALSE], "print_model_error", at, <<model>>),
             files |-> <<>>]
       ELSE [w |-> r.w, files |-> <<r.file>>]

RECURSIVE ModelLoop(_, _, _, _, _, _, _, _)
\* for model in self.models (lines 55-63), from position i on
ModelLoop(w, models, i, audio_path, output_dir, metadata, at, bo) ==
    IF i > Len(models)
    THEN [w |-> w, transcript_files |-> <<>>]
    ELSE LET one == TryModel(w, models[i], audio_path, output_dir, metadata, at, bo[i])
             rest == ModelLoop(one.w, models, i + 1, audio_path, output_dir, metadata, at, bo)
         IN IF one.w.raised
            THEN [w |-> one.w, transcript_files |-> <<>>]
            ELSE [w |-> rest.w, transcript_files |-> one.files \o rest.transcript_files]

\* the metadata synthesized for an input without any (lines 44-52)
DefaultMetadata(input_path) ==
    [title |-> SplitExtStem(input_path), description |-> EmptyStr,
     uploader |-> EmptyStr, upload_date |-> EmptyStr, id |-> EmptyStr]

\* what process and process_one return (line 65; main.py line 130)
JobResult(l, metadata) ==
    [w |-> l.w, transcript_files |-> l.transcript_files, metadata |-> metadata]

\* a process that goes on to its model loop after a failed _prepare_audio
ProcessModels_continue(p, models, input_path, output_dir, at, bo) ==
    LET metadata == IF DOMAIN p.metadata = {}
                    THEN DefaultMetadata(input_path)
                    ELSE p.metadata
    IN JobResult(ModelLoop([p.w EXCEPT !.raised = FALSE], models, 1, p.audio_path,
                           output_dir, metadata, at, bo),
                 metadata)

\* process lines 43-65 with p the outcome of _prepare_audio
ProcessModels(p, models, input_path, output_dir, at, bo) ==
    IF p.w.raised
    THEN [w |-> p.w, transcript_files |-> <<>>, metadata |-> p.metadata]
    ELSE LET metadata == IF DOMAIN p.metadata = {}
                         THEN DefaultMetadata(input_path)
                         ELSE p.metadata
         IN JobResult(ModelLoop(p.w, models, 1, p.audio_path, output_dir, metadata, at, bo),
                      metadata)

\* process lines 38-65 with o the outcome of create_output_directory
ProcessInDir(o, models, input_path, metadata_override, at, acq, bo) ==
    IF o.w.raised
    THEN [w |-> o.w, transcript_files |-> <<>>, metadata |-> metadata_override]
    ELSE ProcessModels(PrepareAudio(o.w, input_path, o.dir, metadata_override, at, acq),
                       models, input_path, o.dir, at, bo)

\* TranscriptionProcessor.process
Process(w, models, input_path, metadata_override, at, acq, bo) ==
    ProcessInDir(create_output_directory(w, input_path, at, acq),
                 models, input_path, metadata_override, at, acq, bo)

\* ----------------------------------------------------------- consensus.py
\* A text is a sequence of words and whitespace runs in which no two words
\* are adjacent.
Whitespace == {" ", "  "}

IsWord(tok) == tok \notin Whitespace

\* str.lower() of a word
Lower(tok) ==
    IF tok = "The" THEN "the"
    ELSE IF tok = "Cat" THEN "cat"
    ELSE tok

RECURSIVE LStrip(_)
LStrip(text) ==
    IF text # <<>> /\ text[1] \in Whitespace THEN LStrip(Tail(text)) ELSE text

RECURSIVE RStrip(_)
RStrip(text) ==
    IF text # <<>> /\ text[Len(text)] \in Whitespace
    THEN RStrip(SubSeq(text, 1, Len(text) - 1))
    ELSE text

\* str.strip()
Strip(text) == RStrip(LStrip(text))

\* str.split()
Split(text) == SelectSeq(text, IsWord)

RECURSIVE Join(_)
\* " ".join(words)
Join(words) ==
    IF words = <<>> THEN <<>>
    ELSE IF Len(words) = 1 THEN words
    ELSE <<words[1], " ">> \o Join(Tail(words))

\* dict.get(key, default) of a loaded JSON object
DictGet(content, key, default) ==
    LET hit == SelectSeq(content, LAMBDA pair : pair[1] = key)
    IN IF hit = <<>> THEN default ELSE hit[1][2]

\* extract_text
extract_text(transcription) == Strip(DictGet(transcription, "text", EmptyStr))

\* ------------------------------------------- consensus.py: similarity
\* the characters of a word or whitespace run
Spell(tok) ==
    IF tok = "the" THEN <<"t", "h", "e">>
    ELSE IF tok = "cat" THEN <<"c", "a", "t">>
    ELSE IF tok = "sat" THEN <<"s", "a", "t">>
    ELSE IF tok = "sad" THEN <<"s", "a", "d">>
    ELSE IF tok = "  " THEN <<" ", " ">>
    ELSE <<tok>>

RECURSIVE Chars(_)
\* the characters of a text
Chars(text) == IF text = <<>> THEN <<>> ELSE Spell(text[1]) \o Chars(Tail(text))

\* str.lower() of a text
LowerText(text) == [i \in 1..Len(text) |-> Lower(text[i])]

SetMax(S) == CHOOSE x \in S : \A y \in S : y <= x
SetMin(S) == CHOOSE x \in S : \A y \in S : x <= y

RECURSIVE RunLen(_, _, _, _, _, _)
\* the length of the common run of a[i..ahi] and b[j..bhi] from their starts
RunLen(a, i, ahi, b, j, bhi) ==
    IF i > ahi \/ j > bhi \/ a[i] # b[j] THEN 0
    ELSE 1 + RunLen(a, i + 1, ahi, b, j + 1, bhi)

\* SequenceMatcher.find_longest_match without junk: the longest common block
\* of a[alo..ahi] and b[blo..bhi], the earliest in a and then the earliest
\* in b of the longest
FindLongestMatch(a, alo, ahi, b, blo, bhi) ==
    LET run == [p \in (alo..ahi) \X (blo..bhi) |-> RunLen(a, p[1], ahi, b, p[2], bhi)]
        size == SetMax({run[p] : p \in DOMAIN run})
        besti == SetMin({p[1] : p \in {q \in DOMAIN run : run[q] = size}})
        bestj == SetMin({p[2] : p \in {q \in DOMAIN run : run[q] = size /\ q[1] = besti}})
    IN [i |-> besti, j |-> bestj, size |-> size]

RECURSIVE MatchingCount(_, _, _, _, _, _)
\* the sum of the sizes of SequenceMatcher.get_matching_blocks: the longest
\* block, then the same to its left and to its right
MatchingCount(a, alo, ahi, b, blo, bhi) ==
    IF alo > ahi \/ blo > bhi THEN 0
    ELSE LET m == FindLongestMatch(a, alo, ahi, b, blo, bhi)
         IN IF m.size = 0 THEN 0
            ELSE m.size
                 + MatchingCount(a, alo, m.i - 1, b, blo, m.j - 1)
                 + MatchingCount(a, m.i + m.size, ahi, b, m.j + m.size, bhi)

\* SequenceMatcher(None, a, b).ratio() as the fraction <<2 * M, T>>; 1.0 for
\* two empty sequences
Ratio(a, b) ==
    IF Len(a) + Len(b) = 0 THEN <<1, 1>>
    ELSE <<2 * MatchingCount(a, 1, Len(a), b, 1, Len(b)), Len(a) + Len(b)>>

\* fractions with positive denominators
RECURSIVE GCD(_, _)
GCD(a, b) == IF b = 0 THEN a ELSE GCD(b, a % b)

\* a fraction in lowest terms
Reduced(x) == <<x[1] \div GCD(x[1], x[2]), x[2] \div GCD(x[1], x[2])>>

FracAdd(x, y) == Reduced(<<x[1] * y[2] + y[1] * x[2], x[2] * y[2]>>)
FracLess(x, y) == x[1] * y[2] < y[1] * x[2]

\* calculate_similarity
calculate_similarity(text1, text2) ==
    Ratio(Chars(LowerText(text1)), Chars(LowerText(text2)))

RECURSIVE FracSum(_)
\* sum(similarities)
FracSum(fracs) == IF fracs = <<>> THEN <<0, 1>> ELSE FracAdd(fracs[1], FracSum(Tail(fracs)))

\* similarity_scores of find_best_transcription (lines 32-41) for the
\* similarities sim[i][j] of the texts; sim[i][i] is left out and stands
\* as <<>>
SimilarityScores(sim) ==
    [i \in 1..Len(sim) |->
        LET similarities == SelectSeq(sim[i], LAMBDA f : f # <<>>)
            total == FracSum(similarities)
        IN IF similarities = <<>> THEN <<0, 1>>
           ELSE <<total[1], total[2] * Len(similarities)>>]

\* a selection that takes the last of the records with the highest score
BestIndex_lastMax(similarity_scores) ==
    CHOOSE i \in 1..Len(similarity_scores) :
        /\ \A j \in 1..Len(similarity_scores) :
              ~FracLess(similarity_scores[i], similarity_scores[j])
        /\ \A j \in (i + 1)..Len(similarity_scores) :
              FracLess(similarity_scores[j], similarity_scores[i])

\* similarity_scores.index(max(similarity_scores)) (line 44), 1-based
BestIndex(similarity_scores) ==
    CHOOSE i \in 1..Len(similarity_scores) :
        /\ \A j \in 1..Len(similarity_scores) :
              ~FracLess(similarity_scores[i], similarity_scores[j])
        /\ \A j \in 1..(i - 1) :
              FracLess(similarity_scores[j], similarity_scores[i])

\* find_best_transcription
find_best_transcription(transcriptions) ==
    IF Len(transcriptions) = 1 THEN transcriptions[1]
    ELSE LET texts == [i \in 1..Len(transcriptions) |-> extract_text(transcriptions[i])]
             sim == [i \in 1..Len(texts) |->
                        [j \in 1..Len(texts) |->
                            IF i # j THEN calculate_similarity(texts[i], texts[j])
                            ELSE <<>>]]
         IN transcriptions[BestIndex(SimilarityScores(sim))]

\* the words the records have at a position, in the case they have
Candidates_keepCase(all_words, pos) ==
    LET voters == SelectSeq(all_words, LAMBDA words : pos <= Len(words))
    IN [i \in 1..Len(voters) |-> voters[i][pos]]

\* the lower-cased words the records have at a position (lines 72-75)
Candidates(all_words, pos) ==
    LET voters == SelectSeq(all_words, LAMBDA words : pos <= Len(words))
    IN [i \in 1..Len(voters) |-> Lower(voters[i][pos])]

\* a vote that takes the first candidate whatever the counts
MostCommon_firstCandidate(candidates) == candidates[1]

\* Counter(candidates).most_common(1)[0][0]: the highest count, and among
\* equal counts the word counted first
MostCommon(candidates) ==
    LET count(x) == Cardinality({i \in 1..Len(candidates) : candidates[i] = x})
        first == CHOOSE i \in 1..Len(candidates) :
                    /\ \A j \in 1..Len(candidates) : count(candidates[j]) <= count(candidates[i])
                    /\ \A j \in 1..(i - 1) : count(candidates[j]) < count(candidates[i])
    IN candidates[first]

RECURSIVE MaxLen(_)
\* max(len(words) for words in all_words)
MaxLen(all_words) ==
    IF all_words = <<>> THEN 0
    ELSE LET rest == MaxLen(Tail(all_words))
         IN IF Len(all_words[1]) > rest THEN Len(all_words[1]) ELSE rest

\* create_word_level_consensus
create_word_level_consensus(transcriptions) ==
    IF transcriptions = <<>> THEN EmptyStr
    ELSE IF Len(transcriptions) = 1 THEN extract_text(transcriptions[1])
    ELSE LET all_words == [i \in 1..Len(transcriptions) |->
                              Split(extract_text(transcriptions[i]))]
             consensus_words == [pos \in 1..MaxLen(all_words) |->
                                    MostCommon(Candidates(all_words, pos))]
         IN Join(consensus_words)

RECURSIVE LoadAll(_, _, _, _)
\* the load loop of create_consensus (lines 95-102), from position i on: a
\* file that fails to load is reported and left out
LoadAll(w, transcript_files, i, at) ==
    IF i > Len(transcript_files)
    THEN [w |-> w, transcriptions |-> <<>>]
    ELSE IF Loads(w.fs, transcript_files[i])
    THEN LET rest == LoadAll(Emit(w, "print_loaded", at, <<>>), transcript_files, i + 1, at)
         IN [w |-> rest.w,
             transcriptions |-> <<w.fs[transcript_files[i]]>> \o rest.transcriptions]
    ELSE LoadAll(Emit(w, "print_load_error", at, <<>>), transcript_files, i + 1, at)

\* Path(f).name
PathName(file_path) == file_path.base \o file_path.ext

\* a consensus_info that counts the files given, loaded or not
ConsensusInfo_countFiles(transcriptions, transcript_files) ==
    [source_count |-> Len(transcript_files),
     source_files |-> [i \in 1..Len(transcript_files) |-> PathName(transcript_files[i])],
     method |-> IF Len(transcript_files) > 1 THEN "word_level_voting" ELSE "single_source"]

\* consensus_info (lines 128-132)
ConsensusInfo(transcriptions, transcript_files) ==
    [source_count |-> Len(transcriptions),
     source_files |-> [i \in 1..Len(transcript_files) |-> PathName(transcript_files[i])],
     method |-> IF Len(transcriptions) > 1 THEN "word_level_voting" ELSE "single_source"]

\* create_consensus lines 104-144 with l the outcome of the load loop
ConsensusOf(l, transcript_files, output_file, at) ==
    IF l.transcriptions = <<>>
    THEN Emit(l.w, "print_no_valid", at, <<>>)
    ELSE LET transcriptions == l.transcriptions
             consensus_text == IF Len(transcriptions) = 1
                               THEN extract_text(transcriptions[1])
                               ELSE create_word_level_consensus(transcriptions)
             best_transcription == IF Len(transcriptions) = 1
                                   THEN transcriptions[1]
                                   ELSE find_best_transcription(transcriptions)
             consensus_result ==
                 << <<"text", consensus_text>>,
                    <<"language", DictGet(best_transcription, "language", <<"auto">>)>>,
                    <<"segments", <<"[...]">> >>,
                    <<"consensus_info", ConsensusInfo(transcriptions, transcript_files)>> >>
         IN Emit([l.w EXCEPT !.fs = WriteFile(@, output_file, consensus_result)],
                 "print_saved", at, <<>>)

\* create_consensus
create_consensus(w, transcript_files, output_file, at) ==
    IF transcript_files = <<>>
    THEN Emit(w, "print_no_files", at, <<>>)
    ELSE ConsensusOf(LoadAll(Emit(w, "print_creating", at, <<>>), transcript_files, 1, at),
                     transcript_files, output_file, at)

\* ---------------------------------------------------------------- main.py
\* process_one lines 79-87: the audio beside the video, extracted unless
\* it exists
ProcessOneAudio(w, video_path, meta, at, acq) ==
    LET audio_path == FilePath(video_path.dir, video_path.base, <<".wav">>)
    IN IF Exists(w.fs, audio_path)
       THEN [w |-> Emit(w, "print_audio_exists", at, <<>>),
             audio_path |-> audio_path, meta |-> meta]
       ELSE LET a == extract_audio(w, video_path, video_path.dir, at, acq)
            IN [w |-> a.w, audio_path |-> a.audio_path, meta |-> meta]

\* process_one lines 70-87 with d the outcome of the download
ProcessOneDownloaded(d, meta_override, at, acq) ==
    IF d.w.raised
    THEN [w |-> d.w, audio_path |-> d.file_path, meta |-> meta_override]
    ELSE ProcessOneAudio(d.w, d.file_path, MergeMetadata(meta_override, d.metadata), at, acq)

\* process_one lines 77-87 with c the outcome of the copy of a local video
ProcessOneCopied(c, meta_override, at, acq) ==
    IF c.w.raised
    THEN [w |-> c.w, audio_path |-> c.path, meta |-> meta_override]
    ELSE ProcessOneAudio(c.w, c.path, meta_override, at, acq)

\* process_one lines 63-94 with o the outcome of create_output_directory
ProcessOneInDir(o, single_input, meta_override, at, acq) ==
    IF o.w.raised
    THEN [w |-> o.w, audio_path |-> DirPath(<<>>), meta |-> meta_override]
    ELSE IF IsYoutubeUrl(single_input)
    THEN ProcessOneDownloaded(
             download_youtube_with_versions(o.w, single_input, o.dir, at, acq),
             meta_override, at, acq)
    ELSE IF single_input[Len(single_input)] = ".mp4"
    THEN ProcessOneCopied(ShutilCopy(o.w, single_input, o.dir, at, acq),
                          meta_override, at, acq)
    ELSE LET c == ShutilCopy(o.w, single_input, o.dir, at, acq)
         IN [w |-> c.w, audio_path |-> c.path, meta |-> meta_override]

\* process_one lines 62-94: output directory, acquisition, audio, metadata
ProcessOnePrepare(w, single_input, meta_override, at, acq) ==
    ProcessOneInDir(create_output_directory(w, single_input, at, acq),
                    single_input, meta_override, at, acq)

\* process_one lines 108-126: the metadata injection inlined in the model
\* loop; a failure to read or write the file is caught and printed
ProcessOneInject(w, t_file, meta, m, at) ==
    IF ~Loads(w.fs, t_file)
    THEN Emit(w, "print_inject_failed", at, <<m>>)
    ELSE LET data == w.fs[t_file]
             ordered == << <<"title", Get(meta, "title")>>,
                           <<"description", Get(meta, "description")>>,
                           <<"uploader", Get(meta, "uploader")>>,
                           <<"upload_date", Get(meta, "upload_date")>>,
                           <<"video_id", Get(meta, "id")>>,
                           <<"model", <<m>> >> >>
                        \o SelectSeq(data, IsNotMetaPair)
         IN [w EXCEPT !.fs = WriteFile(@, t_file, ordered)]

\* process_one lines 97-129: one iteration of the model loop; any exception
\* of the iteration is caught and printed
ProcessOneModel(w, m, audio_path, meta, at, outcome) ==
    LET audio_dir == audio_path.dir
        t_file == FilePath(audio_dir, audio_path.base, <<"-", m, ".json">>)
    IN IF Exists(w.fs, t_file)
       THEN [w |-> Emit(w, "print_transcription_exists", at, <<m>>), files |-> <<t_file>>]
       ELSE LET t == transcribe(w, m, audio_path, audio_dir, at, outcome)
            IN IF t.w.raised
               THEN [w |-> Emit([t.w EXCEPT !.raised = FALSE], "print_model_error", at, <<m>>),
                     files |-> <<>>]
               ELSE [w |-> ProcessOneInject(t.w, t.file, meta, m, at),
                     files |-> <<t.file>>]

RECURSIVE ProcessOneLoop(_, _, _, _, _, _, _)
\* for m in models (lines 95-129), from position i on
ProcessOneLoop(w, models, i, audio_path, meta, at, bo) ==
    IF i > Len(models)
    THEN [w |-> w, transcript_files |-> <<>>]
    ELSE LET one == ProcessOneModel(w, models[i], audio_path, meta, at, bo[i])
             rest == ProcessOneLoop(one.w, models, i + 1, audio_path, meta, at, bo)
         IN IF one.w.raised
            THEN [w |-> one.w, transcript_files |-> <<>>]
            ELSE [w |-> rest.w, transcript_files |-> one.files \o rest.transcript_files]

\* process_one lines 95-130 with p the outcome of lines 62-94
ProcessOneModels(p, models, single_input, at, bo) ==
    IF p.w.raised
    THEN [w |-> p.w, transcript_files |-> <<>>, metadata |-> p.meta]
    ELSE LET meta == IF DOMAIN p.meta = {}
                     THEN [title |-> SplitExtStem(single_input), description |-> EmptyStr,
                           uploader |-> EmptyStr, upload_date |-> EmptyStr, id |-> EmptyStr]
                     ELSE p.meta
         IN JobResult(ProcessOneLoop(p.w, models, 1, p.audio_path, meta, at, bo), meta)

\* main.process_one
ProcessOne(w, models, single_input, meta_override, at, acq, bo) ==
    ProcessOneModels(ProcessOnePrepare(w, single_input, meta_override, at, acq),
                     models, single_input, at, bo)

\* ================================================================ state
VARIABLES
    fs,               \* the files on disk: path -> content
    log,              \* the calls of collaborators and the messages printed, in order
    models,           \* the requested models (self.models / models of main)
    impl,             \* "processor": src/processor.py, src/playlist.py; "main": main.py
    input,            \* the source reference given to the program
    override,         \* metadata_override of a direct process call
    runs,             \* one record per finished process call on input
    playlist_info,    \* the raw entries the probe of a playlist returns
    start_index,      \* the requested 1-based start position
    entries,          \* list(iter_playlist_entries(info)) of the running batch
    idx,              \* position of the batch loop
    all_transcripts,  \* the batch's result list
    pc,               \* position of the batch driver
    merge,            \* the records of the metadata merge check
    enrich,           \* the backend record and metadata of the enrichment check
    cons,             \* the transcript files and outcome of the consensus check
    slug              \* the title and directory slug of the slug check

vars == <<fs, log, models, impl, input, override, runs, playlist_info, start_index,
          entries, idx, all_transcripts, pc, merge, enrich, cons, slug>>

unitVars == <<enrich, cons, slug>>

batchVars == <<playlist_info, start_index, entries, idx, all_transcripts, pc>>

World == [fs |-> fs, log |-> log, raised |-> FALSE]

\* ------------------------------------------------------ inputs drawn by \E
RECURSIVE SeqsUpTo(_, _)
SeqsUpTo(S, n) ==
    IF n = 0 THEN {<<>>}
    ELSE LET shorter == SeqsUpTo(S, n - 1)
         IN shorter \cup {Append(q, x) : q \in {r \in shorter : Len(r) = n - 1}, x \in S}

ModelLists == SeqsUpTo(ModelIds, MaxModels)

AcqOutcomes == {"ok", "probe", "fetch", "extract"}
BackendOutcomes == {"ok", "error_file", "corrupt", "raise"}

\* the outcomes of the backends of one call, one per requested model; the
\* backends run only after a preparation that went through
BackendChoices(acq, outcomes) ==
    IF acq = "ok" THEN [1..Len(models) -> outcomes]
    ELSE {[i \in 1..Len(models) |-> "ok"]}

\* a transcript of the model is on disk; the calls of one behaviour of the
\* direct call are on one input and write to one directory
HasTranscript(model) == \E q \in DOMAIN fs : q.ext = <<"-", model, ".json">>

\* the outcomes of the backends of a direct call: a backend whose transcript
\* is on disk before the call is not run in it
DirectChoices(acq) ==
    {bo \in BackendChoices(acq, BackendOutcomes) :
        \A i \in 1..Len(models) : HasTranscript(models[i]) => bo[i] = "ok"}

\* the override of a caller that knows the title but not the uploader
EntryLikeOverride ==
    [id |-> NoneVal, title |-> <<"A">>, description |-> EmptyStr,
     uploader |-> EmptyStr, upload_date |-> EmptyStr]

\* the override of a caller that knows the uploader only
UploaderOnlyOverride == [uploader |-> <<"U">>]

Overrides == {EmptyDict, EntryLikeOverride, UploaderOnlyOverride}

DirectInputs == {YT1, LocalMp4, LocalWav}

NoMerge == [phase |-> "none", override |-> EmptyDict, acquired |-> EmptyDict,
            once |-> EmptyDict, twice |-> EmptyDict]

NoEnrich == [phase |-> "none", record |-> <<>>, metadata |-> EmptyDict, model |-> ""]
NoCons == [phase |-> "none"]
NoSlug == [phase |-> "none", title |-> <<>>, slug |-> <<>>]

\* the unit checks are idle
NoUnits == enrich = NoEnrich /\ cons = NoCons /\ slug = NoSlug

\* no batch is running
NoBatch ==
    /\ playlist_info = <<>>
    /\ start_index = 1
    /\ entries = <<>>
    /\ idx = 0
    /\ all_transcripts = <<>>

\* ---------------------------------- direct calls of the job orchestrator
Init ==
    /\ fs = [q \in {} |-> <<>>]
    /\ log = <<>>
    /\ models \in ModelLists
    /\ impl \in {"processor", "main"}
    /\ input \in DirectInputs
    /\ override \in Overrides
    /\ runs = <<>>
    /\ playlist_info = <<>>
    /\ start_index = 1
    /\ entries = <<>>
    /\ idx = 0
    /\ all_transcripts = <<>>
    /\ pc = "direct"
    /\ merge = NoMerge
    /\ NoUnits

\* what one finished call at batch position at (0: none) leaves for the record
RunRecord(r, at) ==
    [at |-> at, fsBefore |-> fs, fsAfter |-> r.w.fs, raised |-> r.w.raised,
     result |-> r.transcript_files, metadata |-> r.metadata,
     calls |-> SubSeq(r.w.log, Len(log) + 1, Len(r.w.log))]

Finish(r) ==
    /\ fs' = r.w.fs
    /\ log' = r.w.log
    /\ runs' = Append(runs, RunRecord(r, 0))
    /\ UNCHANGED <<models, impl, input, override, batchVars, merge, unitVars>>

\* processor.process(input, metadata_override = override)
CallProcess ==
    /\ pc = "direct" /\ impl = "processor" /\ Len(runs) < MaxRuns
    /\ \E acq \in AcqOutcomes : \E bo \in DirectChoices(acq) :
          Finish(Process(World, models, input, override, 0, acq, bo))

\* process_one(input, meta_override = override) of main
CallProcessOne ==
    /\ pc = "direct" /\ impl = "main" /\ Len(runs) < MaxRuns
    /\ \E acq \in AcqOutcomes : \E bo \in DirectChoices(acq) :
          Finish(ProcessOne(World, models, input, override, 0, acq, bo))

Next == CallProcess \/ CallProcessOne

Spec == Init /\ [][Next]_vars

\* ------------------------------------------------------ the batch drivers
PlaylistInfos == SeqsUpTo(RawEntries, MaxEntries)

\* --playlist-start below 1, within the playlist and beyond its end
StartIndexes == 0..(MaxEntries + 1)

\* the batches run with one model and with two distinct models
BatchModelLists == {<<"whisper">>, <<"parakeet", "whisper">>}

\* in a batch a backend invocation returns or raises
BatchOutcomes == {"ok", "raise"}

InitBatch ==
    /\ fs = [q \in {} |-> <<>>]
    /\ log = <<>>
    /\ models \in BatchModelLists
    /\ impl \in {"processor", "main"}
    /\ input \in {PlaylistUrl, YT1}
    /\ override = EmptyDict
    /\ runs = <<>>
    /\ playlist_info \in IF input = PlaylistUrl THEN PlaylistInfos ELSE {<<>>}
    /\ start_index \in IF input = PlaylistUrl THEN StartIndexes ELSE {1}
    /\ entries = <<>>
    /\ idx = 0
    /\ all_transcripts = <<>>
    /\ pc = "start"
    /\ merge = NoMerge
    /\ NoUnits

Say(l, op, at) == Append(l, Ev(op, at, <<>>))

\* the head of the loop with the start position compared against total + 1
EnterLoop_offByOne(l, ents, start) ==
    LET total == Len(ents)
        l1 == Say(l, "print_playlist", 0)
    IN IF start > total + 1
       THEN /\ log' = Say(l1, "print_nothing_to_do", 0)
            /\ pc' = "returned"
            /\ idx' = 0
       ELSE /\ log' = IF start > 1 THEN Say(l1, "print_skipping", 0) ELSE l1
            /\ pc' = "loop"
            /\ idx' = 1

\* the head of _process_playlist_entries (lines 41-53) for a start position;
\* main.py lines 138-146 are the same code
EnterLoop(l, ents, start) ==
    LET total == Len(ents)
        l1 == Say(l, "print_playlist", 0)
    IN IF start > total
       THEN /\ log' = Say(l1, "print_nothing_to_do", 0)
            /\ pc' = "returned"
            /\ idx' = 0
       ELSE /\ log' = IF start > 1 THEN Say(l1, "print_skipping", 0) ELSE l1
            /\ pc' = "loop"
            /\ idx' = 1

\* process_playlist lines 27-33 and 35-36: the probe, then either the head
\* of the entry loop, or the hand-over to the single-video paths
PlaylistStart ==
    /\ impl = "processor" /\ pc = "start"
    /\ \E probe_raises \in BOOLEAN :
          IF probe_raises
          THEN /\ log' = Say(Say(log, "probe_youtube", 0), "print_probe_failed", 0)
               /\ pc' = "fallback"
               /\ UNCHANGED <<entries, idx>>
          ELSE LET info == ProbeYoutube(input, playlist_info)
                   l == Say(log, "probe_youtube", 0)
               IN IF ~is_playlist(info)
                  THEN /\ log' = l
                       /\ pc' = "single"
                       /\ UNCHANGED <<entries, idx>>
                  ELSE /\ entries' = iter_playlist_entries(info)
                       /\ EnterLoop(l, iter_playlist_entries(info), start_index)
    /\ all_transcripts' = <<>>
    /\ UNCHANGED <<fs, models, impl, input, override, runs, playlist_info, start_index, merge, unitVars>>

\* the end of an iteration without the try/except of lines 74-78: the
\* exception of process leaves _process_playlist_entries for the except
\* clause of process_playlist
EntryDone_noCatch(r, at) ==
    /\ fs' = r.w.fs
    /\ runs' = Append(runs, RunRecord(r, at))
    /\ IF r.w.raised
       THEN /\ log' = Say(r.w.log, "print_probe_failed", 0)
            /\ pc' = "fallback"
            /\ UNCHANGED <<all_transcripts, idx>>
       ELSE /\ log' = r.w.log
            /\ all_transcripts' = all_transcripts \o r.transcript_files
            /\ idx' = at + 1
            /\ UNCHANGED pc

\* the end of an iteration that puts the entry's transcripts in front of
\* the batch's list
EntryDone_prepend(r, at) ==
    /\ fs' = r.w.fs
    /\ runs' = Append(runs, RunRecord(r, at))
    /\ IF r.w.raised
       THEN /\ log' = Say(r.w.log, "print_entry_error", at)
            /\ UNCHANGED all_transcripts
       ELSE /\ log' = r.w.log
            /\ all_transcripts' = r.transcript_files \o all_transcripts
    /\ idx' = at + 1
    /\ UNCHANGED pc

\* the end of an iteration (lines 74-78) with r the outcome of process: its
\* transcripts are added, or its exception is caught and printed
EntryDone(r, at) ==
    /\ fs' = r.w.fs
    /\ runs' = Append(runs, RunRecord(r, at))
    /\ IF r.w.raised
       THEN /\ log' = Say(r.w.log, "print_entry_error", at)
            /\ UNCHANGED all_transcripts
       ELSE /\ log' = r.w.log
            /\ all_transcripts' = all_transcripts \o r.transcript_files
    /\ idx' = at + 1
    /\ UNCHANGED pc

\* one iteration of the entry loop of _process_playlist_entries (lines
\* 55-78): a skipped position, an entry without url, or one process call
PlaylistEntry ==
    /\ impl = "processor" /\ pc = "loop" /\ idx <= Len(entries)
    /\ LET entry == entries[idx]
           url == Get(entry, "url")
       IN IF idx < start_index \/ ~Truthy(url)
          THEN /\ idx' = idx + 1
               /\ UNCHANGED <<fs, log, all_transcripts, runs, pc>>
          ELSE \E acq \in AcqOutcomes : \E bo \in BackendChoices(acq, BatchOutcomes) :
                 EntryDone(Process([fs |-> fs, log |-> Say(log, "print_entry", idx),
                                    raised |-> FALSE],
                                   models, url, EntryMetadata(entry), idx, acq, bo),
                           idx)
    /\ UNCHANGED <<models, impl, input, override, playlist_info, start_index, entries, merge, unitVars>>

\* return all_transcripts (line 80)
PlaylistReturn ==
    /\ impl = "processor" /\ pc = "loop" /\ idx > Len(entries)
    /\ pc' = "returned"
    /\ UNCHANGED <<fs, log, models, impl, input, override, runs, playlist_info,
                   start_index, entries, idx, all_transcripts, merge, unitVars>>

\* the end of a single-video call whose exception is caught by an except
\* clause that falls back (playlist.py lines 31-36; main.py lines 164-166)
SingleDone(r) ==
    /\ fs' = r.w.fs
    /\ runs' = Append(runs, RunRecord(r, 0))
    /\ IF r.w.raised
       THEN /\ log' = Say(r.w.log, "print_probe_failed", 0)
            /\ pc' = "fallback"
            /\ UNCHANGED all_transcripts
       ELSE /\ log' = r.w.log
            /\ pc' = "returned"
            /\ all_transcripts' = r.transcript_files

\* the end of the call in the except clause (playlist.py line 37): its
\* result is the driver's, its exception the driver's
FallbackDone(r) ==
    /\ fs' = r.w.fs
    /\ runs' = Append(runs, RunRecord(r, 0))
    /\ log' = r.w.log
    /\ IF r.w.raised
       THEN /\ pc' = "raised"
            /\ UNCHANGED all_transcripts
       ELSE /\ pc' = "returned"
            /\ all_transcripts' = r.transcript_files

\* process_playlist line 31: the reference is no playlist; an exception of
\* this process call is caught by the except clause of line 35
PlaylistSingle ==
    /\ impl = "processor" /\ pc = "single"
    /\ \E acq \in AcqOutcomes : \E bo \in BackendChoices(acq, BatchOutcomes) :
          SingleDone(Process(World, models, input, EmptyDict, 0, acq, bo))
    /\ UNCHANGED <<models, impl, input, override, playlist_info, start_index,
                   entries, idx, merge, unitVars>>

\* process_playlist line 37: process(url) in the except clause; its
\* exception leaves process_playlist
PlaylistFallback ==
    /\ impl = "processor" /\ pc = "fallback"
    /\ \E acq \in AcqOutcomes : \E bo \in BackendChoices(acq, BatchOutcomes) :
          FallbackDone(Process(World, models, input, EmptyDict, 0, acq, bo))
    /\ UNCHANGED <<models, impl, input, override, playlist_info, start_index,
                   entries, idx, merge, unitVars>>

\* ------------------------------------------------------ main(): the loop
\* start_index = max(1, args.playlist_start) (main.py line 141)
MainStartIndex == IF start_index > 1 THEN start_index ELSE 1

\* main lines 134-146 and 165-166: the probe, then the head of the entry
\* loop or the hand-over to the single-video paths
MainStart ==
    /\ impl = "main" /\ pc = "start"
    /\ \E probe_raises \in BOOLEAN :
          IF probe_raises
          THEN /\ log' = Say(Say(log, "probe_youtube", 0), "print_probe_failed", 0)
               /\ pc' = "fallback"
               /\ UNCHANGED <<entries, idx>>
          ELSE LET info == ProbeYoutube(input, playlist_info)
                   l == Say(log, "probe_youtube", 0)
               IN IF ~is_playlist(info)
                  THEN /\ log' = l
                       /\ pc' = "single"
                       /\ UNCHANGED <<entries, idx>>
                  ELSE /\ entries' = iter_playlist_entries(info)
                       /\ EnterLoop(l, iter_playlist_entries(info), MainStartIndex)
    /\ all_transcripts' = <<>>
    /\ UNCHANGED <<fs, models, impl, input, override, runs, playlist_info, start_index, merge, unitVars>>

\* the end of an iteration of main's loop (line 162) with r the outcome of
\* process_one: there is no try around the call, so its exception leaves
\* the loop for the except clause of line 165
MainEntryDone(r, at) ==
    /\ fs' = r.w.fs
    /\ runs' = Append(runs, RunRecord(r, at))
    /\ IF r.w.raised
       THEN /\ log' = Say(r.w.log, "print_probe_failed", 0)
            /\ pc' = "fallback"
            /\ UNCHANGED <<all_transcripts, idx>>
       ELSE /\ log' = r.w.log
            /\ all_transcripts' = all_transcripts \o r.transcript_files
            /\ idx' = at + 1
            /\ UNCHANGED pc

\* one iteration of the entry loop of main (lines 147-162): a skipped
\* position, an entry without url, or one process_one call
MainEntry ==
    /\ impl = "main" /\ pc = "loop" /\ idx <= Len(entries)
    /\ LET entry == entries[idx]
           url == Get(entry, "url")
       IN IF idx < MainStartIndex \/ ~Truthy(url)
          THEN /\ idx' = idx + 1
               /\ UNCHANGED <<fs, log, all_transcripts, runs, pc>>
          ELSE \E acq \in AcqOutcomes : \E bo \in BackendChoices(acq, BatchOutcomes) :
                 MainEntryDone(ProcessOne([fs |-> fs, log |-> Say(log, "print_entry", idx),
                                           raised |-> FALSE],
                                          models, url, EntryMetadata(entry), idx, acq, bo),
                               idx)
    /\ UNCHANGED <<models, impl, input, override, playlist_info, start_index, entries, merge, unitVars>>

\* the loop of main is through: main ends
MainReturn ==
    /\ impl = "main" /\ pc = "loop" /\ idx > Len(entries)
    /\ pc' = "returned"
    /\ UNCHANGED <<fs, log, models, impl, input, override, runs, playlist_info,
                   start_index, entries, idx, all_transcripts, merge, unitVars>>

\* main line 164: the reference is no playlist; an exception of process_one
\* is caught by the except clause of line 165
MainSingle ==
    /\ impl = "main" /\ pc = "single"
    /\ \E acq \in AcqOutcomes : \E bo \in BackendChoices(acq, BatchOutcomes) :
          SingleDone(ProcessOne(World, models, input, EmptyDict, 0, acq, bo))
    /\ UNCHANGED <<models, impl, input, override, playlist_info, start_index,
                   entries, idx, merge, unitVars>>

\* the end of the call in main's except clause (line 167): its result is
\* added to all_transcripts, its exception ends the program
MainFallbackDone(r) ==
    /\ fs' = r.w.fs
    /\ runs' = Append(runs, RunRecord(r, 0))
    /\ log' = r.w.log
    /\ IF r.w.raised
       THEN /\ pc' = "raised"
            /\ UNCHANGED all_transcripts
       ELSE /\ pc' = "returned"
            /\ all_transcripts' = all_transcripts \o r.transcript_files

\* main line 167: process_one(inp) in the except clause; its exception ends
\* the program
MainFallback ==
    /\ impl = "main" /\ pc = "fallback"
    /\ \E acq \in AcqOutcomes : \E bo \in BackendChoices(acq, BatchOutcomes) :
          MainFallbackDone(ProcessOne(World, models, input, EmptyDict, 0, acq, bo))
    /\ UNCHANGED <<models, impl, input, override, playlist_info, start_index,
                   entries, idx, merge, unitVars>>

NextBatch ==
    \/ PlaylistStart
    \/ PlaylistEntry
    \/ PlaylistReturn
    \/ PlaylistSingle
    \/ PlaylistFallback
    \/ MainStart
    \/ MainEntry
    \/ MainReturn
    \/ MainSingle
    \/ MainFallback

SpecBatch == InitBatch /\ [][NextBatch]_vars

\* ------------------------------------------------- the metadata merge alone
MergeKeys == {MetaKeys[i] : i \in 1..Min(MaxKeys, Len(MetaKeys))}

\* what a caller may pass: any subset of the fields, each None, '' or text
OverrideRecords ==
    UNION {[D -> {NoneVal, EmptyStr, <<"A">>}] : D \in SUBSET MergeKeys}

\* what download_youtube returns: every field, each None, '' or text
AcquiredRecords == [MergeKeys -> {NoneVal, EmptyStr, <<"B">>}]

InitMerge ==
    /\ fs = [q \in {} |-> <<>>]
    /\ log = <<>>
    /\ models = <<>>
    /\ impl = "processor"
    /\ input = YT1
    /\ override = EmptyDict
    /\ runs = <<>>
    /\ playlist_info = <<>>
    /\ start_index = 1
    /\ entries = <<>>
    /\ idx = 0
    /\ all_transcripts = <<>>
    /\ pc = "merge"
    /\ \E o \in OverrideRecords, a \in AcquiredRecords :
          merge = [phase |-> "start", override |-> o, acquired |-> a,
                   once |-> EmptyDict, twice |-> EmptyDict]
    /\ NoUnits

\* the merge loop run on the override and the acquired record
MergeOnce ==
    /\ pc = "merge" /\ merge.phase = "start"
    /\ merge' = [merge EXCEPT !.phase = "once",
                              !.once = MergeMetadata(merge.override, merge.acquired)]
    /\ UNCHANGED <<fs, log, models, impl, input, override, runs, batchVars, unitVars>>

\* the merge loop run again on its own result and the same acquired record
MergeAgain ==
    /\ pc = "merge" /\ merge.phase = "once"
    /\ merge' = [merge EXCEPT !.phase = "twice",
                              !.twice = MergeMetadata(merge.once, merge.acquired)]
    /\ UNCHANGED <<fs, log, models, impl, input, override, runs, batchVars, unitVars>>

NextMerge == MergeOnce \/ MergeAgain

SpecMerge == InitMerge /\ [][NextMerge]_vars

\* ------------------------------------------- the metadata injection alone
\* the keys a backend's record may have: those of format_result, and keys
\* that meet the injected ones ("id" is none of them)
RecordKeys == <<"text", "language", "segments", "model", "title", "id">>

BackendValue(key) == <<"backend:", key>>

RECURSIVE InjectiveSeqs(_, _)
\* the sequences without repetition of at most n elements of S
InjectiveSeqs(S, n) ==
    IF n = 0 THEN {<<>>}
    ELSE LET shorter == InjectiveSeqs(S, n - 1)
         IN shorter \cup
            UNION {{Append(q, x) : x \in S \ {q[i] : i \in 1..Len(q)}} :
                      q \in {r \in shorter : Len(r) = n - 1}}

\* the records a model script may have written: a JSON object of distinct keys
BackendRecords ==
    {[i \in 1..Len(ks) |-> <<ks[i], BackendValue(ks[i])>>] :
        ks \in InjectiveSeqs({RecordKeys[i] : i \in 1..Len(RecordKeys)}, MaxFields)}

\* the metadata of a job: acquired, a caller's partial override, none
EnrichMetadata == {RemoteInfo(YT1), UploaderOnlyOverride, DefaultMetadata(LocalWav)}

\* the transcript file of a model in the injection check
EnrichFile(model) ==
    TranscriptPath(<<"out">>, FilePath(<<"out">>, <<"talk">>, <<".wav">>), model)

InitEnrich ==
    /\ enrich \in {[phase |-> "start", record |-> r, metadata |-> md, model |-> m] :
                      r \in BackendRecords, md \in EnrichMetadata, m \in ModelIds}
    /\ fs = WriteFile([q \in {} |-> <<>>], EnrichFile(enrich.model), enrich.record)
    /\ log = <<>>
    /\ models = <<enrich.model>>
    /\ impl \in {"processor", "main"}
    /\ input = LocalWav
    /\ override = enrich.metadata
    /\ runs = <<>>
    /\ NoBatch
    /\ pc = "enrich"
    /\ merge = NoMerge
    /\ cons = NoCons
    /\ slug = NoSlug

\* the world after an injection becomes the state
Injected(w) ==
    /\ fs' = w.fs
    /\ log' = w.log
    /\ enrich' = [enrich EXCEPT !.phase = "done"]
    /\ UNCHANGED <<models, impl, input, override, runs, batchVars, merge, cons, slug>>

\* self._inject_metadata(transcript_file, metadata, model) (processor.py 119)
InjectByProcessor ==
    /\ pc = "enrich" /\ impl = "processor" /\ enrich.phase = "start"
    /\ Injected(InjectMetadata(World, EnrichFile(enrich.model), enrich.metadata,
                               enrich.model, 0))

\* the inlined injection of process_one (main.py 108-126)
InjectByMain ==
    /\ pc = "enrich" /\ impl = "main" /\ enrich.phase = "start"
    /\ Injected(ProcessOneInject(World, EnrichFile(enrich.model), enrich.metadata,
                                 enrich.model, 0))

NextEnrich == InjectByProcessor \/ InjectByMain

SpecEnrich == InitEnrich /\ [][NextEnrich]_vars

\* -------------------------------------------------- create_consensus alone
\* the names of the model scripts, one per transcript file
ConsModels == <<"whisper", "parakeet", "canary", "example", "stablew", "whisperx">>

ConsFile(i) == FilePath(<<"out">>, <<"talk">>, <<"-", ConsModels[i], ".json">>)

ConsOutput == FilePath(<<"out">>, <<"consensus">>, <<".json">>)

\* the texts of the transcripts
Texts == { <<"the", " ", "cat", " ", "sat">>,
           <<"the", " ", "cat", " ", "sad">>,
           <<"The", "  ", "Cat">>,
           <<" ", "the", " ", "cat", " ", "sat", " ">>,
           <<"sad", " ", "cat">>,
           <<"sat">>,
           <<>> }

\* a file that is not there
MissingFile == << <<"<missing>", <<>> >> >>

\* what a transcript file may be: a record with a text, a record without
\* one, a file that does not parse, no file
\* the record a backend wrote for a text: one backend gives "de" as the
\* language, one gives none
TextRecord(t) ==
    IF t = <<"sat">> THEN << <<"text", t>> >>
    ELSE IF t = <<" ", "the", " ", "cat", " ", "sat", " ">>
    THEN << <<"text", t>>, <<"language", <<"de">> >> >>
    ELSE << <<"text", t>>, <<"language", <<"en">> >> >>

FileStates ==
    {TextRecord(t) : t \in Texts}
    \cup {<< <<"language", <<"de">> >> >>, CorruptJson, MissingFile}

InitConsensus ==
    /\ cons \in {[phase |-> "start", given |-> g] : g \in SeqsUpTo(FileStates, MaxRecords)}
    /\ fs = [q \in {ConsFile(i) : i \in {j \in 1..Len(cons.given) : cons.given[j] # MissingFile}}
                |-> LET i == CHOOSE j \in 1..Len(cons.given) : ConsFile(j) = q
                    IN cons.given[i]]
    /\ log = <<>>
    /\ models = <<>>
    /\ impl = "processor"
    /\ input = LocalWav
    /\ override = EmptyDict
    /\ runs = <<>>
    /\ NoBatch
    /\ pc = "consensus"
    /\ merge = NoMerge
    /\ enrich = NoEnrich
    /\ slug = NoSlug

\* the transcript files given to create_consensus
ConsFiles == [i \in 1..Len(cons.given) |-> ConsFile(i)]

\* the records the load loop gets
ValidRecords == SelectSeq(cons.given, LAMBDA c : c # MissingFile /\ c # CorruptJson)

\* the world after create_consensus becomes the state
ConsensusDone(w) ==
    /\ fs' = w.fs
    /\ log' = w.log
    /\ cons' = [phase |-> "done", given |-> cons.given, raised |-> w.raised]
    /\ UNCHANGED <<models, impl, input, override, runs, batchVars, merge, enrich, slug>>

\* create_consensus(transcript_files, output_file)
CreateConsensus ==
    /\ pc = "consensus" /\ cons.phase = "start"
    /\ ConsensusDone(create_consensus(World, ConsFiles, ConsOutput, 0))

NextConsensus == CreateConsensus

SpecConsensus == InitConsensus /\ [][NextConsensus]_vars

\* ------------------------------ create_consensus on copies of one record
\* the records a backend may have written
CopyRecords ==
    {TextRecord(t) : t \in Texts}
    \cup {<< <<"language", <<"de">> >> >>, RawTranscript}

InitDuplicate ==
    /\ cons \in {[phase |-> "duplicate", record |-> r, n |-> n,
                   ranAlone |-> FALSE, alone |-> <<>>,
                   ranCopies |-> FALSE, copies |-> <<>>] :
                     r \in CopyRecords, n \in 2..MaxCopies}
    /\ fs = [q \in {ConsFile(i) : i \in 1..cons.n} |-> cons.record]
    /\ log = <<>>
    /\ models = <<>>
    /\ impl = "processor"
    /\ input = LocalWav
    /\ override = EmptyDict
    /\ runs = <<>>
    /\ NoBatch
    /\ pc = "duplicate"
    /\ merge = NoMerge
    /\ enrich = NoEnrich
    /\ slug = NoSlug

\* the consensus file a call of create_consensus left (empty: none)
Written(w) == IF Exists(w.fs, ConsOutput) THEN w.fs[ConsOutput] ELSE <<>>

\* create_consensus on the one file
ConsensusAlone ==
    /\ pc = "duplicate" /\ cons.phase = "duplicate" /\ ~cons.ranAlone
    /\ LET w == create_consensus(World, <<ConsFile(1)>>, ConsOutput, 0)
       IN /\ fs' = w.fs
          /\ log' = w.log
          /\ cons' = [cons EXCEPT !.ranAlone = TRUE, !.alone = Written(w)]
    /\ UNCHANGED <<models, impl, input, override, runs, batchVars, merge, enrich, slug>>

\* create_consensus on the n files that hold the same record
ConsensusCopies ==
    /\ pc = "duplicate" /\ cons.phase = "duplicate" /\ ~cons.ranCopies
    /\ LET w == create_consensus(World, [i \in 1..cons.n |-> ConsFile(i)], ConsOutput, 0)
       IN /\ fs' = w.fs
          /\ log' = w.log
          /\ cons' = [cons EXCEPT !.ranCopies = TRUE, !.copies = Written(w)]
    /\ UNCHANGED <<models, impl, input, override, runs, batchVars, merge, enrich, slug>>

NextDuplicate == ConsensusAlone \/ ConsensusCopies

SpecDuplicate == InitDuplicate /\ [][NextDuplicate]_vars

\* ------------------------------------------------- the directory slug alone
\* the places of a title where a character illegal in file names may stand
BadSlots == {1, 2, 41, 42}

\* path separators and another illegal character
BadChars == {"/", "\\", "?"}

\* a title of n characters with the character bad at the slots of B
TitleOf(n, B, bad) ==
    [i \in 1..n |-> IF i \in B THEN bad ELSE IF i % 2 = 1 THEN "a" ELSE "b"]

InitSlug ==
    /\ slug \in {[phase |-> "start", title |-> TitleOf(n, B, bad), slug |-> <<>>] :
                    n \in 0..MaxTitleLen, B \in SUBSET BadSlots, bad \in BadChars}
    /\ fs = [q \in {} |-> <<>>]
    /\ log = <<>>
    /\ models = <<>>
    /\ impl = "processor"
    /\ input = LocalWav
    /\ override = EmptyDict
    /\ runs = <<>>
    /\ NoBatch
    /\ pc = "slug"
    /\ merge = NoMerge
    /\ enrich = NoEnrich
    /\ cons = NoCons

\* sanitized_title[:40] of create_output_directory for the title
MakeSlug ==
    /\ pc = "slug" /\ slug.phase = "start"
    /\ slug' = [slug EXCEPT !.phase = "done", !.slug = Slug(slug.title)]
    /\ UNCHANGED <<fs, log, models, impl, input, override, runs, batchVars, merge,
                   enrich, cons>>

NextSlug == MakeSlug

SpecSlug == InitSlug /\ [][NextSlug]_vars

\* =============================================================== claims
Count(events, ops) == Cardinality({i \in 1..Len(events) : events[i].op \in ops})

IsTranscriptPath(p) == Len(p.ext) > 0 /\ p.ext[Len(p.ext)] = ".json"

\* the transcript files of a file system, with their contents
TranscriptFiles(f) == [p \in {q \in DOMAIN f : IsTranscriptPath(q)} |-> f[p]]

\* the model a transcript path belongs to
PathModel(p) == p.ext[2]

IsAttempt(e) == e.op \in {"transcribe", "print_transcription_exists"}
IsModelEvent(e) == e.op \in {"transcribe", "print_transcription_exists", "print_model_error"}

\* the models whose turn came, in order
Attempted(calls) ==
    LET a == SelectSeq(calls, IsAttempt) IN [i \in 1..Len(a) |-> a[i].arg[1]]

RECURSIVE Survivors(_)
\* the models whose turn did not end in a caught exception, in order
Survivors(ev) ==
    IF ev = <<>> THEN <<>>
    ELSE IF Len(ev) >= 2 /\ ev[2].op = "print_model_error"
    THEN Survivors(Tail(Tail(ev)))
    ELSE <<ev[1].arg[1]>> \o Survivors(Tail(ev))

NotFailed(calls) == Survivors(SelectSeq(calls, IsModelEvent))

BackendRaised(r) == Count(r.calls, {"print_model_error"}) > 0

C2_FailureIsolation ==
    \A i \in 1..Len(runs) :
        LET r == runs[i]
        IN /\ r.raised => Count(r.calls, {"transcribe", "print_transcription_exists"}) = 0
           /\ ~r.raised =>
                /\ Attempted(r.calls) = models
                /\ [j \in 1..Len(r.result) |-> PathModel(r.result[j])] = NotFailed(r.calls)
                /\ \A j \in 1..Len(r.result) : Exists(r.fsAfter, r.result[j])

\* the first of two models raises, the second is still run and returned
C2_Witness ==
    /\ Len(runs) >= 1
    /\ Len(models) = 2
    /\ ~runs[1].raised
    /\ Len(runs[1].calls) >= 3
    /\ LET m == SelectSeq(runs[1].calls, IsModelEvent)
       IN /\ Len(m) = 3
          /\ m[1].op = "transcribe" /\ m[2].op = "print_model_error"
          /\ m[3].op = "transcribe"
    /\ Len(runs[1].result) = 1
    /\ PathModel(runs[1].result[1]) = models[2]

\* C3 as stated: a call in which every backend invocation failed and that
\* has no transcript to return raises to its caller.
C3_AllFailedRaises ==
    \A i \in 1..Len(runs) :
        (BackendRaised(runs[i]) /\ runs[i].result = <<>>) => runs[i].raised

\* the audio artifact a job on this input resolves to
TargetAudioPath(input_path) ==
    FilePath(OutputDirName(input_path),
             IF IsYoutubeUrl(input_path)
             THEN sanitize_filename(RemoteInfo(input_path).title)
             ELSE SplitExtStem(input_path),
             <<".wav">>)

\* C8 as stated: a call that finds its target audio path on disk invokes
\* neither the download nor the audio extraction.
C8_AcquisitionSkipped ==
    \A i \in 1..Len(runs) :
        Exists(runs[i].fsBefore, TargetAudioPath(input))
        => Count(runs[i].calls, {"download", "extract_audio"}) = 0

\* C9: in the merged record every field has the override's value when the
\* override has the field present and non-empty, and the acquired value
\* otherwise.
C9_MergePrecedence ==
    merge.phase \in {"once", "twice"} =>
        /\ DOMAIN merge.once = DOMAIN merge.override \cup DOMAIN merge.acquired
        /\ \A k \in DOMAIN merge.once :
              merge.once[k] = IF k \in DOMAIN merge.override /\ Truthy(merge.override[k])
                              THEN merge.override[k]
                              ELSE Get(merge.acquired, k)

\* the example of the spec: {title: "A", uploader: ""} merged with
\* {title: "", uploader: "B"} gives {title: "A", uploader: "B"}
C9_Witness ==
    /\ merge.phase = "once"
    /\ merge.override = [title |-> <<"A">>, uploader |-> EmptyStr]
    /\ Get(merge.acquired, "title") = EmptyStr
    /\ Get(merge.acquired, "uploader") = <<"B">>
    /\ Get(merge.once, "title") = <<"A">>
    /\ Get(merge.once, "uploader") = <<"B">>

\* C10: merging the acquired record into the result of a first merge gives
\* the result of the first merge.
C10_MergeIdempotent ==
    merge.phase = "twice" => merge.twice = merge.once

\* a second merge of records in which both sides have text for the title and
\* the override left a field empty
C10_Witness ==
    /\ merge.phase = "twice"
    /\ Get(merge.override, "title") = <<"A">>
    /\ Get(merge.acquired, "title") = <<"B">>
    /\ Get(merge.override, "uploader") = EmptyStr
    /\ Get(merge.acquired, "uploader") = <<"B">>
    /\ merge.twice = [k \in MergeKeys |-> IF k = "title" THEN <<"A">> ELSE merge.acquired[k]]

\* the title the acquired metadata of an input has (None: nothing acquired)
AcquiredTitle(input_path) ==
    IF IsYoutubeUrl(input_path) THEN RemoteInfo(input_path).title ELSE NoneVal

\* the value a transcript file's content has for a key (None: no such key)
Field(content, key) ==
    LET hit == SelectSeq(content, LAMBDA pair : pair[1] = key)
    IN IF hit = <<>> THEN NoneVal ELSE hit[1][2]

\* the transcripts a call wrote itself: returned, and absent before the call
WrittenBy(r) ==
    {r.result[j] : j \in {k \in 1..Len(r.result) : ~Exists(r.fsBefore, r.result[k])}}

\* C11 as stated: when neither the override nor the acquired metadata has a
\* non-empty title, every transcript the call writes has as its title the
\* sanitized base name of the source reference.
C11_TitleFallback ==
    \A i \in 1..Len(runs) :
        (~runs[i].raised /\ ~Truthy(Get(override, "title")) /\ ~Truthy(AcquiredTitle(input)))
        => \A p \in WrittenBy(runs[i]) :
              Field(runs[i].fsAfter[p], "title") = sanitize_filename(SplitExtStem(input))

\* C18 as stated: a call with more than one model that returns more than
\* one transcript leaves a consensus file.
C18_ConsensusProduced ==
    \A i \in 1..Len(runs) :
        (~runs[i].raised /\ Len(models) > 1 /\ Len(runs[i].result) > 1)
        => \E p \in DOMAIN runs[i].fsAfter : p.base = <<"consensus">>

\* ------------------------------------------------- the enrichment claims
Keys(content) == [i \in 1..Len(content) |-> content[i][1]]

SixKeys == <<"title", "description", "uploader", "upload_date", "video_id", "model">>

IsSixKey(key) == \E i \in 1..Len(SixKeys) : SixKeys[i] = key

\* the position of a key in a content (0: not there)
IndexOf(content, key) ==
    IF \E i \in 1..Len(content) : content[i][1] = key
    THEN CHOOSE i \in 1..Len(content) : content[i][1] = key
    ELSE 0

RECURSIVE Remaining(_)
\* the pairs of a record whose key is none of the six, in the record's order
Remaining(record) ==
    IF record = <<>> THEN <<>>
    ELSE (IF IsSixKey(record[1][1]) THEN <<>> ELSE <<record[1]>>) \o Remaining(Tail(record))

\* the enriched file of the injection check
Enriched == fs[EnrichFile(enrich.model)]

\* the value the metadata gives one of the six keys
MetaValue(key) ==
    IF key = "model" THEN <<enrich.model>>
    ELSE IF key = "video_id" THEN Get(enrich.metadata, "id")
    ELSE Get(enrich.metadata, key)

\* C12: the enriched file has the six keys title, description, uploader,
\* upload_date, video_id, model first, in this order, then the remaining
\* pairs of the backend's record in their original order; title comes
\* before model.
C12_EnrichedKeyOrder ==
    enrich.phase = "done" =>
        /\ Len(Enriched) >= 6
        /\ SubSeq(Keys(Enriched), 1, 6) = SixKeys
        /\ SubSeq(Enriched, 7, Len(Enriched)) = Remaining(enrich.record)
        /\ IndexOf(Enriched, "title") < IndexOf(Enriched, "model")

\* a record of three fields none of which is one of the six, enriched
C12_Witness ==
    /\ enrich.phase = "done"
    /\ Keys(enrich.record) = <<"language", "text", "segments">>
    /\ Keys(Enriched) = SixKeys \o <<"language", "text", "segments">>

\* C13: a key of the backend's record that is one of the six occurs exactly
\* once in the enriched file, with the metadata's value; the backend's value
\* is gone.
C13_EnrichmentCollision ==
    enrich.phase = "done" =>
        \A i \in 1..Len(enrich.record) :
            LET key == enrich.record[i][1]
            IN IsSixKey(key) =>
                 /\ Cardinality({j \in 1..Len(Enriched) : Enriched[j][1] = key}) = 1
                 /\ Field(Enriched, key) = MetaValue(key)
                 /\ \A j \in 1..Len(Enriched) : Enriched[j] # enrich.record[i]

\* a record that has a model and a title of its own next to its text
C13_Witness ==
    /\ enrich.phase = "done"
    /\ Keys(enrich.record) = <<"model", "text", "title">>
    /\ enrich.metadata = RemoteInfo(YT1)
    /\ Field(Enriched, "model") = <<enrich.model>>
    /\ Field(Enriched, "title") = RemoteInfo(YT1).title
    /\ Keys(Enriched) = SixKeys \o <<"text">>

\* -------------------------------------------------- the consensus claims
\* the consensus file create_consensus wrote
Consensus == fs[ConsOutput]

\* the text of a record as the backend wrote it
RawText(record) == DictGet(record, "text", EmptyStr)

\* C14 as stated: with exactly one valid record the consensus text is that
\* record's text as it is, leading and trailing whitespace and letter case
\* included, and the method is "single_source".
C14_SingleSourceVerbatim ==
    (cons.phase = "done" /\ Len(ValidRecords) = 1) =>
        /\ Exists(fs, ConsOutput)
        /\ Field(Consensus, "text") = RawText(ValidRecords[1])
        /\ Field(Consensus, "consensus_info").method = "single_source"

\* the words of the valid records
RecordWords == [i \in 1..Len(ValidRecords) |-> Split(RawText(ValidRecords[i]))]

\* the records that have a word at position p
Voters(p) == {i \in 1..Len(RecordWords) : p <= Len(RecordWords[i])}

\* the number of records whose lower-cased word at position p is x
Votes(p, x) == Cardinality({i \in Voters(p) : Lower(RecordWords[i][p]) = x})

\* the first record whose lower-cased word at position p is x
FirstSeen(p, x) ==
    CHOOSE i \in Voters(p) :
        /\ Lower(RecordWords[i][p]) = x
        /\ \A j \in Voters(p) : Lower(RecordWords[j][p]) = x => i <= j

\* C15: with two or more valid records the consensus text has as many words
\* as the longest record, joined by single spaces; the word at a position is
\* a lower-cased word some record has there, no other candidate has more
\* votes, and a candidate with as many votes was first seen later.
C15_WordVoting ==
    (cons.phase = "done" /\ Len(ValidRecords) >= 2) =>
        /\ Exists(fs, ConsOutput)
        /\ LET text == Field(Consensus, "text")
               words == Split(text)
           IN /\ text = Join(words)
              /\ Len(words) = MaxLen(RecordWords)
              /\ \A p \in 1..Len(words) :
                    /\ Votes(p, words[p]) > 0
                    /\ \A i \in Voters(p) :
                          LET other == Lower(RecordWords[i][p])
                          IN \/ Votes(p, other) < Votes(p, words[p])
                             \/ /\ Votes(p, other) = Votes(p, words[p])
                                /\ FirstSeen(p, words[p]) <= FirstSeen(p, other)

\* the example of the spec, and a first position where the majority is not
\* the first candidate
C15_Witness ==
    /\ cons.phase = "done"
    /\ Len(cons.given) = 3
    /\ RawText(cons.given[1]) = <<"sad", " ", "cat">>
    /\ RawText(cons.given[2]) = <<"the", " ", "cat", " ", "sad">>
    /\ RawText(cons.given[3]) = <<"the", " ", "cat", " ", "sat">>
    /\ Field(Consensus, "text") = <<"the", " ", "cat", " ", "sad">>

\* C16 as stated: when no file yields a valid record, no consensus file is
\* written, the transcript files stay as they are, and create_consensus
\* raises to its caller.
C16_ConsensusFailure ==
    (cons.phase = "done" /\ ValidRecords = <<>>) =>
        /\ ~Exists(fs, ConsOutput)
        /\ \A i \in 1..Len(cons.given) :
              cons.given[i] # MissingFile => fs[ConsFile(i)] = cons.given[i]
        /\ cons.raised

\* C17: with N >= 1 valid records the consensus_info has source_count N, and
\* the method "word_level_voting" for N >= 2 and "single_source" for N = 1.
C17_ConsensusInfo ==
    (cons.phase = "done" /\ Len(ValidRecords) >= 1) =>
        /\ Exists(fs, ConsOutput)
        /\ Field(Consensus, "consensus_info").source_count = Len(ValidRecords)
        /\ Field(Consensus, "consensus_info").method =
              IF Len(ValidRecords) >= 2 THEN "word_level_voting" ELSE "single_source"

\* three files of which one does not parse: two sources, voting
C17_Witness ==
    /\ cons.phase = "done"
    /\ Len(cons.given) = 3
    /\ cons.given[2] = CorruptJson
    /\ Len(ValidRecords) = 2
    /\ Field(Consensus, "consensus_info").source_count = 2
    /\ Field(Consensus, "consensus_info").method = "word_level_voting"

\* ------------------------------------------------------- the batch claims
LoopEntered == \E i \in 1..Len(log) : log[i].op = "print_playlist"

BatchOver == pc \in {"returned", "raised"}

HasLocator(j) == Truthy(Get(entries[j], "url"))

IsEntryRun(r) == r.at > 0

\* the process calls made for entries, in the order made
EntryRuns == SelectSeq(runs, IsEntryRun)

Positions(rs) == [i \in 1..Len(rs) |-> rs[i].at]

RECURSIVE DuePositions(_, _)
\* the positions lo..hi of entries that have a locator, ascending
DuePositions(lo, hi) ==
    IF hi < 1 \/ hi < lo THEN <<>>
    ELSE DuePositions(lo, hi - 1) \o (IF HasLocator(hi) THEN <<hi>> ELSE <<>>)

RECURSIVE ReturnedBy(_)
\* the results of the calls that returned, concatenated in call order
ReturnedBy(rs) ==
    IF rs = <<>> THEN <<>>
    ELSE (IF rs[1].raised THEN <<>> ELSE rs[1].result) \o ReturnedBy(Tail(rs))

\* the entries the loop is through with
LoopDone == IF pc = "loop" THEN idx - 1 ELSE Len(entries)

\* C4: in PlaylistProcessor, whichever entries raise, each entry at a
\* position >= start_index the loop came to was given to process (an entry
\* without a locator is skipped, as the batch entry contract says), the
\* result list is the results of the entries that returned, in order, and
\* process_playlist does not raise.
C4_BatchIsolation ==
    (impl = "processor" /\ LoopEntered) =>
        /\ pc \in {"loop", "returned"}
        /\ Positions(EntryRuns) = DuePositions(start_index, LoopDone)
        /\ all_transcripts = ReturnedBy(EntryRuns)

\* entry 2 of 3 raises, entries 1 and 3 produce results, the batch returns
C4_Witness ==
    /\ impl = "processor" /\ pc = "returned"
    /\ Len(entries) = 3 /\ start_index = 1
    /\ Len(EntryRuns) = 3
    /\ ~EntryRuns[1].raised /\ EntryRuns[2].raised /\ ~EntryRuns[3].raised
    /\ EntryRuns[1].result # <<>> /\ EntryRuns[3].result # <<>>
    /\ all_transcripts = EntryRuns[1].result \o EntryRuns[3].result

\* C5 as stated: in the playlist loop of main, after an entry whose
\* processing raised, every later entry at a position >= start_index (that
\* has a locator) is still processed.
C5_MainLoopContinues ==
    (impl = "main" /\ LoopEntered /\ BatchOver) =>
        \A i \in 1..Len(EntryRuns) :
            EntryRuns[i].raised =>
                \A j \in (EntryRuns[i].at + 1)..Len(entries) :
                    (j >= MainStartIndex /\ HasLocator(j))
                    => \E k \in 1..Len(EntryRuns) : EntryRuns[k].at = j

\* C6 as stated: for 1 <= start_index <= n exactly the entries at positions
\* start_index..n (that have a locator) are given to the orchestrator, in
\* order, and no directory creation, acquisition or backend invocation
\* happens for a position < start_index.
C6_BatchResume ==
    (LoopEntered /\ BatchOver /\ 1 <= start_index /\ start_index <= Len(entries)) =>
        /\ Positions(EntryRuns) = DuePositions(start_index, Len(entries))
        /\ \A i \in 1..Len(log) : log[i].at = 0 \/ log[i].at >= start_index

\* C7: with start_index greater than the number of entries the batch gives
\* no entry to the orchestrator, creates no directory and acquires nothing,
\* prints that there is nothing to do, and ends with an empty result.
C7_StartBeyondEnd ==
    (LoopEntered /\ start_index > Len(entries)) =>
        /\ pc = "returned"
        /\ runs = <<>>
        /\ DOMAIN fs = {}
        /\ all_transcripts = <<>>
        /\ Count(log, {"print_nothing_to_do"}) = 1
        /\ Count(log, {"mkdir", "probe", "download", "extract_audio", "copy",
                       "transcribe", "print_entry"}) = 0

C7_Witness ==
    /\ LoopEntered /\ pc = "returned"
    /\ Len(entries) = 2 /\ HasLocator(1) /\ HasLocator(2)
    /\ start_index = 3
    /\ log[Len(log)].op = "print_nothing_to_do"
    /\ runs = <<>>

\* C19 as stated: a driver given a reference that is no collection invokes
\* the orchestrator once for it, also when that invocation raises, and
\* never a second time.
C19_NoRetry ==
    input = YT1 =>
        /\ Len(runs) <= 1
        /\ (BatchOver /\ Count(log, {"probe_youtube"}) = 1) => Len(runs) = 1

\* ------------------------------------------------------- the slug claim
PathSeparators == {"/", "\\"}

HasNoSeparator(name) == \A i \in 1..Len(name) : name[i] \notin PathSeparators

\* the characters of a title that are legal in file names
LegalCount(title) == Cardinality({i \in 1..Len(title) : title[i] \notin IllegalChars})

\* C20 as stated: the slug has no path separator, and the slug of a title
\* longer than 40 characters has exactly 40.
C20_Original ==
    slug.phase = "done" =>
        /\ HasNoSeparator(slug.slug)
        /\ Len(slug.title) > MaxSlugLen => Len(slug.slug) = MaxSlugLen

\* C20 amended: the slug has no path separator, and its length is the
\* smaller of 40 and the number of the title's characters that are legal in
\* file names: exactly 40 whenever more than 40 are.
C20_DirectorySlug ==
    slug.phase = "done" =>
        /\ HasNoSeparator(slug.slug)
        /\ Len(slug.slug) = Min(MaxSlugLen, LegalCount(slug.title))
        /\ LegalCount(slug.title) > MaxSlugLen => Len(slug.slug) = MaxSlugLen

\* a title of 42 characters that starts with a separator: 41 are kept, the
\* slug has 40
C20_Witness ==
    /\ slug.phase = "done"
    /\ Len(slug.title) = 42
    /\ slug.title[1] = "/"
    /\ LegalCount(slug.title) = 41
    /\ Len(slug.slug) = MaxSlugLen
    /\ slug.slug[1] = "b"

\* ------------------------------------------- the failure and resume claims
\* the record a model script leaves when its load or transcription step raised
IsErrorRecord(content) == Field(content, "text") = Field(ErrorTranscript, "text")

\* C21 as stated: a model whose script failed internally (its load or
\* transcription step raised) has no path in the list process returns, and
\* no file is left at its transcript path.
C21_FailedModelExcluded ==
    \A i \in 1..Len(runs) :
        /\ \A j \in 1..Len(runs[i].result) :
              Exists(runs[i].fsAfter, runs[i].result[j])
              => ~IsErrorRecord(runs[i].fsAfter[runs[i].result[j]])
        /\ \A p \in DOMAIN TranscriptFiles(runs[i].fsAfter) :
              ~IsErrorRecord(runs[i].fsAfter[p])

\* the transcript path a job on the input has for a model
ExpectedTranscript(input_path, model) ==
    TranscriptPath(OutputDirName(input_path), TargetAudioPath(input_path), model)

IsTranscribe(e) == e.op = "transcribe"

\* the models the backend was invoked for, in order
Transcribed(calls) ==
    LET t == SelectSeq(calls, IsTranscribe) IN [i \in 1..Len(t) |-> t[i].arg[1]]

NoDuplicates(s) == \A i, j \in 1..Len(s) : s[i] = s[j] => i = j

\* C22: a second call that comes to its model loop after a first call that
\* returned invokes the backend for the models whose transcript file is
\* missing and for no model whose file exists; for a list of distinct
\* models these are the missing ones in requested order.
C22_ResumeAfterPartialFailure ==
    \A i \in 1..(Len(runs) - 1) :
        (/\ runs[i + 1].fsBefore = runs[i].fsAfter
         /\ ~runs[i].raised
         /\ ~runs[i + 1].raised)
        => LET before == runs[i + 1].fsBefore
               missing(m) == ~Exists(before, ExpectedTranscript(input, m))
               invoked == Transcribed(runs[i + 1].calls)
           IN /\ \A k \in 1..Len(invoked) : missing(invoked[k])
              /\ {invoked[k] : k \in 1..Len(invoked)}
                    = {models[k] : k \in {n \in 1..Len(models) : missing(models[n])}}
              /\ NoDuplicates(models) => invoked = SelectSeq(models, missing)

\* the first call wrote parakeet's transcript and whisper raised; the
\* second call invokes whisper only and returns both
C22_Witness ==
    /\ Len(runs) = 2
    /\ models = <<"whisper", "parakeet">>
    /\ ~runs[1].raised /\ ~runs[2].raised
    /\ Len(runs[1].result) = 1
    /\ PathModel(runs[1].result[1]) = "parakeet"
    /\ ~Exists(runs[1].fsAfter, ExpectedTranscript(input, "whisper"))
    /\ Exists(runs[1].fsAfter, ExpectedTranscript(input, "parakeet"))
    /\ Transcribed(runs[2].calls) = <<"whisper">>
    /\ Count(runs[2].calls, {"print_transcription_exists"}) = 1
    /\ Len(runs[2].result) = 2

\* ------------------------------------------------------ the ordering claim
AcquisitionOps == {"mkdir", "probe", "download", "copy", "extract_audio"}

StrictlyAscending(s) == \A i \in 1..(Len(s) - 1) : s[i] < s[i + 1]

\* C23: in a batch every backend invocation of an entry comes before every
\* acquisition step of a later entry; a job that comes to its model loop
\* gives the models their turn in requested order and returns the paths of
\* the models that did not fail in that order; and the batch result is the
\* concatenation of the results of the calls that returned, in entry order.
C23_SequentialOrder ==
    /\ \A a, b \in 1..Len(log) :
          (/\ log[a].op = "transcribe" /\ log[a].at > 0
           /\ log[b].op \in AcquisitionOps /\ log[b].at > log[a].at)
          => a < b
    /\ \A i \in 1..Len(runs) :
          ~runs[i].raised =>
             /\ Attempted(runs[i].calls) = models
             /\ [j \in 1..Len(runs[i].result) |-> PathModel(runs[i].result[j])]
                   = NotFailed(runs[i].calls)
    /\ StrictlyAscending(Positions(EntryRuns))
    /\ all_transcripts = ReturnedBy(runs)

\* two entries, two models: entry 1's transcripts come before entry 2's
\* download, and the batch result is entry 1's list followed by entry 2's
C23_Witness ==
    /\ pc = "returned" /\ impl = "processor"
    /\ models = <<"parakeet", "whisper">>
    /\ Len(EntryRuns) = 2
    /\ Len(EntryRuns[1].result) = 2 /\ Len(EntryRuns[2].result) = 2
    /\ EntryRuns[1].result # EntryRuns[2].result
    /\ all_transcripts = EntryRuns[1].result \o EntryRuns[2].result
    /\ [j \in 1..2 |-> PathModel(EntryRuns[1].result[j])] = models
    /\ \E a, b \in 1..Len(log) :
          /\ a < b
          /\ log[a].op = "transcribe" /\ log[a].at = EntryRuns[1].at
          /\ log[b].op = "download" /\ log[b].at = EntryRuns[2].at

\* --------------------------------------------------- the transcript path
RECURSIVE Contains(_, _)
Contains(s, x) == s # <<>> /\ (s[1] = x \/ Contains(Tail(s), x))

\* C24: every path a call returns is {audio base}-{model}.json in the job's
\* output directory and a file is there; every model whose turn did not fail
\* has its file at that path; and the next call that comes to its model loop
\* finds each such file by its existence check: it does not invoke the
\* backend for the model and returns the same path.
C24_PredictablePath ==
    /\ \A i \in 1..Len(runs) :
          ~runs[i].raised =>
             /\ \A j \in 1..Len(runs[i].result) :
                   /\ runs[i].result[j]
                         = ExpectedTranscript(input, PathModel(runs[i].result[j]))
                   /\ Exists(runs[i].fsAfter, runs[i].result[j])
             /\ \A k \in 1..Len(NotFailed(runs[i].calls)) :
                   Exists(runs[i].fsAfter,
                          ExpectedTranscript(input, NotFailed(runs[i].calls)[k]))
    /\ \A i \in 1..(Len(runs) - 1) :
          (~runs[i].raised /\ ~runs[i + 1].raised) =>
             \A k \in 1..Len(NotFailed(runs[i].calls)) :
                LET m == NotFailed(runs[i].calls)[k]
                IN /\ ~Contains(Transcribed(runs[i + 1].calls), m)
                   /\ Contains(runs[i + 1].result, ExpectedTranscript(input, m))

\* main's process_one wrote whisper's transcript of a downloaded video; the
\* next call finds it and returns its path without a backend invocation
C24_Witness ==
    /\ impl = "main" /\ input = YT1 /\ models = <<"whisper">>
    /\ Len(runs) = 2
    /\ ~runs[1].raised /\ ~runs[2].raised
    /\ Transcribed(runs[1].calls) = <<"whisper">>
    /\ runs[1].result = <<ExpectedTranscript(YT1, "whisper")>>
    /\ Transcribed(runs[2].calls) = <<>>
    /\ Count(runs[2].calls, {"print_transcription_exists"}) = 1
    /\ runs[2].result = runs[1].result

\* ------------------------------------------- the representative record
\* the texts the records of the consensus check have, stripped
KnownTexts == {Strip(t) : t \in Texts}

\* the case-insensitive similarity of every two of them
TextSimilarity ==
    [p \in KnownTexts \X KnownTexts |-> calculate_similarity(p[1], p[2])]

\* the mean similarity of valid record i's text to the texts of the others
MeanSimilarity(i) ==
    LET others == SelectSeq([j \in 1..Len(ValidRecords) |-> j], LAMBDA j : j # i)
        total == FracSum([k \in 1..Len(others) |->
                             TextSimilarity[<<Strip(RawText(ValidRecords[i])),
                                              Strip(RawText(ValidRecords[others[k]]))>>]])
    IN <<total[1], total[2] * Len(others)>>

\* the mean similarities of the valid records
Means == [i \in 1..Len(ValidRecords) |-> MeanSimilarity(i)]

\* no record has a higher mean similarity than record i
IsHighest(i) ==
    \A j \in 1..Len(ValidRecords) : ~FracLess(MeanSimilarity(i), MeanSimilarity(j))

\* the first record, in input order, of those with the highest mean
Representative ==
    LET means == Means
    IN SetMin({i \in 1..Len(means) :
                  \A j \in 1..Len(means) : ~FracLess(means[i], means[j])})

\* C25: with two or more valid records the language of the consensus record
\* is the language of the first record, in input order, among those with
\* the highest mean case-insensitive similarity to the other records, and
\* "auto" when that record has no language.
C25_RepresentativeLanguage ==
    (cons.phase = "done" /\ Len(ValidRecords) >= 2) =>
        /\ Exists(fs, ConsOutput)
        /\ LET chosen == ValidRecords[Representative]
           IN Field(Consensus, "language")
                 = IF Field(chosen, "language") = NoneVal
                   THEN <<"auto">>
                   ELSE Field(chosen, "language")

\* the second and third record agree and differ from the first: both have
\* the highest mean, the language is the second record's
C25_Witness ==
    /\ cons.phase = "done"
    /\ Len(cons.given) = 3
    /\ cons.given[1] = << <<"text", <<"sad", " ", "cat">> >>, <<"language", <<"en">> >> >>
    /\ cons.given[2] = << <<"text", <<" ", "the", " ", "cat", " ", "sat", " ">> >>,
                          <<"language", <<"de">> >> >>
    /\ cons.given[3] = << <<"text", <<"the", " ", "cat", " ", "sat">> >>,
                          <<"language", <<"en">> >> >>
    /\ IsHighest(2) /\ IsHighest(3) /\ ~IsHighest(1)
    /\ Field(Consensus, "language") = <<"de">>

\* ------------------------------------------------- the returned transcripts
\* the content has the six metadata keys first, in their order
IsEnriched(content) ==
    Len(content) >= Len(SixKeys) /\ SubSeq(Keys(content), 1, Len(SixKeys)) = SixKeys

\* C26 as stated: every path in the list a call returns refers to a file
\* whose first six keys are title, description, uploader, upload_date,
\* video_id, model, also when the file was there before the call and when
\* the metadata injection failed.
C26_ReturnedAreEnriched ==
    \A i \in 1..Len(runs) :
        ~runs[i].raised =>
            \A j \in 1..Len(runs[i].result) :
                /\ Exists(runs[i].fsAfter, runs[i].result[j])
                /\ IsEnriched(runs[i].fsAfter[runs[i].result[j]])

\* ---------------------------------------------- the consensus provenance
\* C27 as stated: in every consensus record written, source_count is the
\* number of names in source_files, also when files failed to load.
C27_SourceCountMatchesFiles ==
    (cons.phase = "done" /\ Exists(fs, ConsOutput)) =>
        Field(Consensus, "consensus_info").source_count
            = Len(Field(Consensus, "consensus_info").source_files)

\* ------------------------------------------------ the duplication claim
\* a text lower-cased, with every whitespace run replaced by one space
SingleSpaced(text) ==
    [i \in 1..Len(text) |-> IF text[i] \in Whitespace THEN " " ELSE Lower(text[i])]

BothRan == cons.phase = "duplicate" /\ cons.ranAlone /\ cons.ranCopies

\* C28 as stated: the consensus text built from N >= 2 copies of a record
\* equals the consensus text built from the record alone.
C28_Original ==
    BothRan => Field(cons.copies, "text") = Field(cons.alone, "text")

\* C28 amended: the consensus text built from N >= 2 copies of a record
\* equals the consensus text built from the record alone, lower-cased and
\* with every whitespace run replaced by one space.
C28_DuplicationStable ==
    BothRan =>
        /\ cons.alone # <<>> /\ cons.copies # <<>>
        /\ Field(cons.copies, "text") = SingleSpaced(Field(cons.alone, "text"))

\* three copies of "The  Cat": alone the text stays, the vote gives "the cat"
C28_Witness ==
    /\ BothRan
    /\ cons.n = 3
    /\ RawText(cons.record) = <<"The", "  ", "Cat">>
    /\ Field(cons.alone, "text") = <<"The", "  ", "Cat">>
    /\ Field(cons.copies, "text") = <<"the", " ", "cat">>

\* ------------------------------------------- the failed audio preparation
\* the steps of a job before its model loop that may raise
PreparationOps == {"probe", "download", "copy", "extract_audio"}

\* C29: a call whose audio preparation raised raises to its caller at that
\* step, invokes no backend, returns nothing and creates no transcript
\* file; a call that returns has its audio artifact on disk.
C29_PreparationFailure ==
    \A i \in 1..Len(runs) :
        /\ runs[i].raised =>
              /\ runs[i].calls # <<>>
              /\ runs[i].calls[Len(runs[i].calls)].op \in PreparationOps
              /\ Count(runs[i].calls, {"transcribe", "print_transcription_exists",
                                       "print_model_error"}) = 0
              /\ runs[i].result = <<>>
              /\ TranscriptFiles(runs[i].fsAfter) = TranscriptFiles(runs[i].fsBefore)
        /\ ~runs[i].raised => Exists(runs[i].fsAfter, TargetAudioPath(input))

\* the copy of a local video succeeds, the audio extraction raises: the call
\* raises with two models requested and none invoked
C29_Witness ==
    /\ Len(runs) = 1
    /\ input = LocalMp4
    /\ Len(models) = 2
    /\ runs[1].raised
    /\ [k \in 1..Len(runs[1].calls) |-> runs[1].calls[k].op]
          = <<"mkdir", "copy", "extract_audio">>
    /\ ~Exists(runs[1].fsAfter, TargetAudioPath(LocalMp4))
    /\ TranscriptFiles(runs[1].fsAfter) = TranscriptFiles(runs[1].fsBefore)

\* ------------------------------------------- the start index below one
\* C30 as stated: with start_index below 1 a batch driver that entered its
\* loop and is over has given every entry with a locator to the
\* orchestrator, in order, skipped none and printed no skipping notice.
C30_LowStartIndex ==
    (LoopEntered /\ BatchOver /\ start_index < 1) =>
        /\ Positions(EntryRuns) = DuePositions(1, Len(entries))
        /\ Count(log, {"print_skipping"}) = 0



====
